---- MODULE Spec2Model ----
(***************************************************************************)
(* usbd-hid: the gen_hid_descriptor compiler (macros/src/lib.rs), the      *)
(* field analyzer of macros/src/item.rs and the item encoding of           *)
(* descriptors/src/lib.rs, as a state machine.                             *)
(*                                                                         *)
(* Numbers: TLC's integers are 32-bit, Rust's isize is 64-bit here.  Every *)
(* value the model computes fits 32 bits; 2^31 and 2^32 never appear as    *)
(* values, only as "2^n - 1" (Pow2Minus1) or as an overflow outcome.       *)
(***************************************************************************)
EXTENDS Integers, Sequences, FiniteSets, TLC

VARIABLES
    build,      \* the profile the macro crate is built with
    decl,       \* the annotated struct: its named fields, in order
    args,       \* the attribute's arguments: the clauses of the spec
    spec,       \* the parsed GroupSpec (root)
    stack,      \* the emit_group calls in progress
    compiler,   \* DescCompilation: the cached globals
    elems,      \* the descriptor bytes pushed so far
    log,        \* one entry per item clause compiled (history)
    result,     \* outcome of gen_hid_descriptor
    an_in,      \* analyze_field under test: its input
    an_out,     \* analyze_field under test: its results
    tokens      \* the TokenStream gen_hid_descriptor returns

VARIABLES
    rc,         \* try_resolve_constant under test: its input and results
    gen,        \* gen_serializer / filter_struct_fields: inputs, progress, results
    hid,        \* a HIDClass: settings, protocol, set_report_buf, endpoints
    obs,        \* what the device's user and the host have seen of the HIDClass
    em          \* emit_item under test: its arguments and the bytes it pushed

\* the state of the parts that are exercised on their own
ext_vars == <<rc, gen, hid, obs, em>>

vars == <<build, decl, args, spec, stack, compiler, elems, log, result, an_in, an_out, tokens, ext_vars>>

(***************************************************************************)
(* Bounds of the model.                                                    *)
(***************************************************************************)
MaxFields == 2      \* item clauses in one group body
MaxArrayLen == 3    \* longest array type drawn for analyze_field
MaxWantBits == 33   \* largest packed_bits drawn for analyze_field
MaxGenFields == 2   \* fields of the struct given to gen_serializer / filter_struct_fields
MaxOps == 3         \* calls and control requests made on one HIDClass
MaxEmit == 300      \* emit_item is given every value of -MaxEmit..MaxEmit

(***************************************************************************)
(* Option<T>                                                               *)
(***************************************************************************)
None == [some |-> FALSE, v |-> 0]
Some(x) == [some |-> TRUE, v |-> x]

(***************************************************************************)
(* descriptors/src/lib.rs: item tags and types                             *)
(***************************************************************************)
GlobalItemKind_UsagePage == 0
GlobalItemKind_LogicalMin == 1
GlobalItemKind_LogicalMax == 2
GlobalItemKind_ReportSize == 7
GlobalItemKind_ReportID == 8
GlobalItemKind_ReportCount == 9

LocalItemKind_Usage == 0
LocalItemKind_UsageMin == 1
LocalItemKind_UsageMax == 2

MainItemKind_Input == 8
MainItemKind_Output == 9
MainItemKind_Feature == 11
MainItemKind_Collection == 10
MainItemKind_EndCollection == 12

ItemType_Main == 0
ItemType_Global == 1
ItemType_Local == 2

\* impl Into<MainItemKind> for String
MainItemKind_from(s) ==
    CASE s = "feature" -> MainItemKind_Feature
      [] s = "output" -> MainItemKind_Output
      [] s = "collection" -> MainItemKind_Collection
      [] s = "ecollection" -> MainItemKind_EndCollection
      [] s = "input" -> MainItemKind_Input
      [] OTHER -> MainItemKind_Input

\* bit b of byte x
Bit(x, b) == (x \div (2 ^ b)) % 2

\* bitfield setter of one bit: MainItemSetting::set_constant and friends
SetBit(x, b, on) == x - Bit(x, b) * (2 ^ b) + (IF on THEN 2 ^ b ELSE 0)

\* MainItemSetting: the bit each setter writes
MainItemSetting_bit(word) ==
    CASE word \in {"constant", "data"} -> 0
      [] word \in {"variable", "array"} -> 1
      [] word \in {"relative", "absolute"} -> 2
      [] word \in {"wrap", "no_wrap"} -> 3
      [] word \in {"non_linear", "linear"} -> 4
      [] word \in {"no_preferred", "preferred"} -> 5
      [] word \in {"null", "not_null"} -> 6
      [] word \in {"volatile", "not_volatile"} -> 7

\* ItemPrefix: byte_count in bits 1..0, type in bits 3..2, tag in bits 7..4
ItemPrefix(tag, typ, byte_count) ==
    (tag % 16) * 16 + (typ % 4) * 4 + (byte_count % 4)

(***************************************************************************)
(* macros/src/lib.rs: item encoding                                        *)
(***************************************************************************)
\* LittleEndian::write_i32(&mut buf, num as i32): byte i of the two's
\* complement of num
I32Byte(num, i) ==
    IF num >= 0 THEN (num \div (256 ^ i)) % 256
    ELSE 255 - (((-(num + 1)) \div (256 ^ i)) % 256)

LittleEndian_write_i32(num) == [i \in 1..4 |-> I32Byte(num, i - 1)]

\* emit without the sign rule: a value is shortened whenever its upper
\* bytes are zero
emit_no_sign_rule(tag, typ, buf, signed) ==
    IF buf[2] = 0 /\ buf[3] = 0 /\ buf[4] = 0
    THEN <<ItemPrefix(tag, typ, 1), buf[1]>>
    ELSE IF buf[3] = 0 /\ buf[4] = 0
    THEN <<ItemPrefix(tag, typ, 2), buf[1], buf[2]>>
    ELSE <<ItemPrefix(tag, typ, 3), buf[1], buf[2], buf[3], buf[4]>>

\* emit with the sign rule on the 1-byte form only
emit_sign_rule_one_byte(tag, typ, buf, signed) ==
    IF buf[2] = 0 /\ buf[3] = 0 /\ buf[4] = 0 /\ ~(signed /\ buf[1] = 255)
    THEN <<ItemPrefix(tag, typ, 1), buf[1]>>
    ELSE IF buf[3] = 0 /\ buf[4] = 0
    THEN <<ItemPrefix(tag, typ, 2), buf[1], buf[2]>>
    ELSE <<ItemPrefix(tag, typ, 3), buf[1], buf[2], buf[3], buf[4]>>

\* DescCompilation::emit: the bytes pushed for one item
emit(tag, typ, buf, signed) ==
    IF buf[2] = 0 /\ buf[3] = 0 /\ buf[4] = 0 /\ ~(signed /\ buf[1] = 255)
    THEN <<ItemPrefix(tag, typ, 1), buf[1]>>
    ELSE IF buf[3] = 0 /\ buf[4] = 0 /\ ~(signed /\ buf[2] = 255)
    THEN <<ItemPrefix(tag, typ, 2), buf[1], buf[2]>>
    ELSE <<ItemPrefix(tag, typ, 3), buf[1], buf[2], buf[3], buf[4]>>

\* DescCompilation::emit_item: the bytes pushed for item (typ, kind) = num
emit_item(typ, kind, num, signed) ==
    LET allow_short == typ = ItemType_Main /\ kind = MainItemKind_Input
    IN  IF allow_short /\ num = 0
        THEN <<ItemPrefix(kind, typ, 0)>>
        ELSE emit(kind, typ, LittleEndian_write_i32(num), signed)

(***************************************************************************)
(* Field types as syn gives them: a path of identifiers (each a sequence   *)
(* of characters), an array of an element type with a length literal, or   *)
(* anything else (tuple, reference, ...).                                  *)
(***************************************************************************)
TyPath(segs) == [shape |-> "Path", segments |-> segs, len |-> 0, elem_shape |-> "None"]
TyArray(segs, n) == [shape |-> "Array", segments |-> segs, len |-> n, elem_shape |-> "Path"]
TyArrayOfOther(n) == [shape |-> "Array", segments |-> <<>>, len |-> n, elem_shape |-> "Other"]
TyOther == [shape |-> "Other", segments |-> <<>>, len |-> 0, elem_shape |-> "None"]
\* *a.elem
ElemType(ty) == [shape |-> ty.elem_shape, segments |-> ty.segments, len |-> 0, elem_shape |-> "None"]

Id_u8 == <<"u", "8">>
Id_u16 == <<"u", "1", "6">>
Id_u32 == <<"u", "3", "2">>
Id_u64 == <<"u", "6", "4">>
Id_u128 == <<"u", "1", "2", "8">>
Id_usize == <<"u", "s", "i", "z", "e">>
Id_i8 == <<"i", "8">>
Id_i16 == <<"i", "1", "6">>
Id_i32 == <<"i", "3", "2">>
Id_i64 == <<"i", "6", "4">>
Id_bool == <<"b", "o", "o", "l">>
Id_f32 == <<"f", "3", "2">>

(***************************************************************************)
(* Rust integer arithmetic whose overflow the build decides: with overflow *)
(* checks (dev profile) it panics, without (release) it wraps.             *)
(***************************************************************************)
U16(v) ==
    IF v >= 0 /\ v < 65536 THEN [panic |-> FALSE, v |-> v]
    ELSE IF build.overflow_checks THEN [panic |-> TRUE, v |-> 0]
    ELSE [panic |-> FALSE, v |-> v % 65536]

\* 2^n - 1, for 0 <= n <= 31
RECURSIVE Pow2Minus1(_)
Pow2Minus1(n) == IF n = 0 THEN 0 ELSE 2 * Pow2Minus1(n - 1) + 1

\* `2u32.pow(n) as isize - 1`: u32::pow inherits the caller's overflow
\* checks; 2^n wraps to 0 in 32 bits for n >= 32
U32Pow2Minus1(n) ==
    IF n < 32 THEN [panic |-> FALSE, v |-> Pow2Minus1(n)]
    ELSE IF build.overflow_checks THEN [panic |-> TRUE, v |-> 0]
    ELSE [panic |-> FALSE, v |-> -1]

(***************************************************************************)
(* MainItem, ReportUnaryField and the result of analyze_field              *)
(***************************************************************************)
MainItem(kind, lmin, lmax, count, size, padding) ==
    [kind |-> kind, logical_minimum |-> lmin, logical_maximum |-> lmax,
     report_count |-> count, report_size |-> size, padding_bits |-> padding]

NoItem == MainItem(0, 0, 0, 0, 0, None)

AnOk(bit_width, item) == [tag |-> "Ok", bit_width |-> bit_width, descriptor_item |-> item, msg |-> ""]
AnErr(msg) == [tag |-> "Err", bit_width |-> 0, descriptor_item |-> NoItem, msg |-> msg]
AnPanic == [tag |-> "Panic", bit_width |-> 0, descriptor_item |-> NoItem, msg |-> ""]
NotRun == [tag |-> "NotRun", bit_width |-> 0, descriptor_item |-> NoItem, msg |-> ""]

\* signed_unary_item (the same text in lib.rs and item.rs)
signed_unary_item(kind, bit_width) ==
    LET bound == U32Pow2Minus1(bit_width - 1)
    IN  IF bound.panic THEN AnPanic
        ELSE AnOk(bit_width, MainItem(kind, -bound.v, bound.v, 1, bit_width % 65536, None))

\* unsigned_unary_item (the same text in lib.rs and item.rs)
unsigned_unary_item(kind, bit_width) ==
    LET max == U32Pow2Minus1(bit_width)
    IN  IF max.panic THEN AnPanic
        ELSE AnOk(bit_width, MainItem(kind, 0, max.v, 1, bit_width % 65536, None))

(***************************************************************************)
(* macros/src/lib.rs: analyze_field                                        *)
(***************************************************************************)
\* the match on the type's identifier
analyze_field_type(id, kind) ==
    CASE id = Id_u8 -> unsigned_unary_item(kind, 8)
      [] id = Id_u16 -> unsigned_unary_item(kind, 16)
      [] id = Id_u32 -> unsigned_unary_item(kind, 32)
      [] id = Id_i8 -> signed_unary_item(kind, 8)
      [] id = Id_i16 -> signed_unary_item(kind, 16)
      [] id = Id_i32 -> signed_unary_item(kind, 32)
      [] OTHER -> AnErr("type not supported")

\* `if let Some(want_bits) = item.want_bits { ... }`
analyze_field_bitpack(output, want_bits) ==
    LET remaining_bits == U16((output.bit_width % 65536) - want_bits)
        packed == [output.descriptor_item EXCEPT
                      !.logical_minimum = 0, !.logical_maximum = 1,
                      !.report_count = want_bits, !.report_size = 1]
    IN  IF remaining_bits.panic THEN AnPanic
        ELSE IF remaining_bits.v > 0
        THEN AnOk(output.bit_width, [packed EXCEPT !.padding_bits = Some(remaining_bits.v)])
        ELSE AnOk(output.bit_width, packed)

RECURSIVE analyze_field(_, _)
analyze_field(ft, item) ==
    IF ft.shape = "Path"
    THEN IF Len(ft.segments) # 1
         THEN AnErr("internal error when unwrapping type")
         ELSE LET output == analyze_field_type(ft.segments[1], item.kind)
              IN  IF output.tag # "Ok" THEN output
                  ELSE IF item.want_bits.some
                  THEN analyze_field_bitpack(output, item.want_bits.v)
                  ELSE output
    ELSE IF ft.shape = "Array"
    THEN IF ft.len = 0
         THEN AnErr("array has invalid length")
         ELSE LET f == analyze_field(ElemType(ft), item)
              IN  IF f.tag # "Ok" THEN f
                  ELSE LET count == U16(f.descriptor_item.report_count * (ft.len % 65536))
                       IN  IF count.panic THEN AnPanic
                           ELSE AnOk(f.bit_width,
                                     [f.descriptor_item EXCEPT !.report_count = count.v])
    ELSE AnErr("cannot handle field type")

(***************************************************************************)
(* macros/src/item.rs: analyze_field                                       *)
(***************************************************************************)
DigitValue(c) ==
    CASE c = "0" -> 0 [] c = "1" -> 1 [] c = "2" -> 2 [] c = "3" -> 3 [] c = "4" -> 4
      [] c = "5" -> 5 [] c = "6" -> 6 [] c = "7" -> 7 [] c = "8" -> 8 [] c = "9" -> 9
      [] OTHER -> -1

RECURSIVE DecimalValue(_)
DecimalValue(s) ==
    IF s = <<>> THEN 0
    ELSE 10 * DecimalValue(SubSeq(s, 1, Len(s) - 1)) + DigitValue(s[Len(s)])

\* size_str.parse::<usize>()
str_parse_usize(s) ==
    IF s = <<>> \/ \E i \in 1..Len(s) : DigitValue(s[i]) < 0
    THEN [is_err |-> TRUE, v |-> 0]
    ELSE [is_err |-> FALSE, v |-> DecimalValue(s)]

\* `if let Some(want_bits) = item.want_bits { ... } else { }` and the
\* multiplication of report_count that follows it
item_analyze_field_shape(output, size, item) ==
    LET d == output.descriptor_item
        want_bits == item.want_bits.v
        width == output.bit_width * size
        remaining_bits == U16((width % 65536) - want_bits)
        packed == [d EXCEPT !.logical_minimum = 0, !.logical_maximum = 1,
                            !.report_count = want_bits, !.report_size = 1,
                            !.padding_bits = IF remaining_bits.v > 0
                                             THEN Some(remaining_bits.v) ELSE None]
        shaped == IF item.want_bits.some THEN packed ELSE d
        count == U16(shaped.report_count * (size % 65536))
    IN  IF item.want_bits.some /\ width < want_bits
        THEN AnErr("bit_width < want_bits")
        ELSE IF item.want_bits.some /\ remaining_bits.panic THEN AnPanic
        ELSE IF count.panic THEN AnPanic
        ELSE AnOk(output.bit_width, [shaped EXCEPT !.report_count = count.v])

item_analyze_field(ft, item) ==
    LET size == IF ft.shape = "Array" THEN ft.len ELSE IF ft.shape = "Path" THEN 1 ELSE 0
        p == IF ft.shape = "Array" THEN (IF ft.elem_shape = "Path" THEN Some(1) ELSE None)
             ELSE IF ft.shape = "Path" THEN Some(1) ELSE None
    IN  IF ft.shape = "Array" /\ size = 0
        THEN AnErr("array has invalid length")
        ELSE IF ~p.some THEN AnErr("cannot handle field type")
        ELSE IF Len(ft.segments) # 1 THEN AnErr("internal error when unwrapping type")
        ELSE LET type_str == ft.segments[1]
                 sign == SubSeq(type_str, 1, 1)
                 size_str == SubSeq(type_str, 2, Len(type_str))
                 container_size == str_parse_usize(size_str)
                 known_sign == sign = <<"u">> \/ sign = <<"i">>
             IN  IF container_size.is_err \/ ~known_sign
                 THEN AnErr("type not supported")
                 ELSE LET output == IF sign = <<"u">>
                                    THEN unsigned_unary_item(item.kind, container_size.v)
                                    ELSE signed_unary_item(item.kind, container_size.v)
                      IN  IF output.tag # "Ok" THEN output
                          ELSE item_analyze_field_shape(output, size, item)

(***************************************************************************)
(* macros/src/lib.rs: the parser.  A clause of the attribute's arguments   *)
(* is an item clause  #[attrs] name = kind  or a group clause              *)
(* (key = val, ...) = { clauses }.                                         *)
(***************************************************************************)
ItemClause(name, kind, attrs) ==
    [tag |-> "kv", name |-> name, kind |-> kind, attrs |-> attrs]
GroupClause(keys, body) ==
    [tag |-> "group", keys |-> keys, body |-> body]
KV(key, val) == [key |-> key, val |-> val]
PackedBits(n) == [name |-> "packed_bits", num |-> n, words |-> <<>>]
ItemSettings(words) == [name |-> "item_settings", num |-> 0, words |-> words]

ItemSpec(kind, settings, want_bits) ==
    [kind |-> kind, settings |-> settings, want_bits |-> want_bits]

SpecMainItem(i) == [tag |-> "MainItem", item |-> i]
SpecCollection(g) == [tag |-> "Collection", group |-> g]

\* GroupSpec { ..Default::default() }
GroupSpec_default ==
    [fields |-> <<>>, field_order |-> <<>>,
     report_id |-> None, usage_page |-> None, collection |-> None,
     usage |-> None, usage_min |-> None, usage_max |-> None]

SettingWords ==
    {"constant", "data", "variable", "array", "relative", "absolute", "wrap", "no_wrap",
     "non_linear", "linear", "no_preferred", "preferred", "null", "not_null",
     "volatile", "not_volatile"}
SettingOn == {"constant", "variable", "relative", "wrap", "non_linear", "no_preferred",
              "null", "volatile"}

\* the "item_settings" arm of parse_item_attrs: the flags, word by word
RECURSIVE parse_item_settings(_, _)
parse_item_settings(out, words) ==
    IF words = <<>> THEN out
    ELSE LET w == Head(words)
             next == IF w \in SettingWords
                     THEN SetBit(out, MainItemSetting_bit(w), w \in SettingOn)
                     ELSE out
         IN  parse_item_settings(next, Tail(words))

\* parse_item_attrs: acc is (out, had_settings, packed_bits)
RECURSIVE parse_item_attrs_from(_, _)
parse_item_attrs_from(acc, attrs) ==
    IF attrs = <<>>
    THEN [settings |-> IF acc.had_settings THEN Some(acc.out) ELSE None,
          packed_bits |-> acc.packed_bits]
    ELSE LET a == Head(attrs)
             next == CASE a.name = "packed_bits" -> [acc EXCEPT !.packed_bits = Some(a.num)]
                       [] a.name = "item_settings" ->
                            [acc EXCEPT !.had_settings = TRUE,
                                        !.out = parse_item_settings(acc.out, a.words)]
                       [] OTHER -> acc
         IN  parse_item_attrs_from(next, Tail(attrs))

parse_item_attrs(attrs) ==
    parse_item_attrs_from([out |-> 0, had_settings |-> FALSE, packed_bits |-> None], attrs)

\* HashMap::insert
Insert(map, key, value) == (key :> value) @@ map

\* GroupSpec::set_item
set_item(self, name, item_kind, settings, bits) ==
    IF name \in DOMAIN self.fields
    THEN IF self.fields[name].tag = "MainItem"
         THEN [self EXCEPT !.fields[name] = SpecMainItem(ItemSpec(item_kind, settings, bits))]
         ELSE self
    ELSE [self EXCEPT !.fields = Insert(self.fields, name,
                                        SpecMainItem(ItemSpec(item_kind, settings, bits))),
                      !.field_order = Append(self.field_order, name)]

\* GroupSpec::add_nested_group
add_nested_group(self, ng) ==
    LET name == [i \in 1..(Cardinality(DOMAIN self.fields) + 1) |-> "_"]
    IN  [self EXCEPT !.fields = Insert(self.fields, name, SpecCollection(ng)),
                     !.field_order = Append(self.field_order, name)]

ParseOk(g) == [ok |-> TRUE, g |-> g, msg |-> ""]
ParseErr(msg) == [ok |-> FALSE, g |-> GroupSpec_default, msg |-> msg]

\* GroupSpec::try_set_attr
try_set_attr(self, name, val) ==
    CASE name = "report_id" -> ParseOk([self EXCEPT !.report_id = Some(val)])
      [] name = "usage_page" -> ParseOk([self EXCEPT !.usage_page = Some(val)])
      [] name = "collection" -> ParseOk([self EXCEPT !.collection = Some(val)])
      [] name = "usage" -> ParseOk([self EXCEPT !.usage = Some(val)])
      [] name = "usage_min" -> ParseOk([self EXCEPT !.usage_min = Some(val)])
      [] name = "usage_max" -> ParseOk([self EXCEPT !.usage_max = Some(val)])
      [] OTHER -> ParseErr("unknown group spec key")

\* the loop of parse_group_spec over collection_attrs
RECURSIVE try_set_attrs(_, _)
try_set_attrs(out, keys) ==
    IF keys = <<>> THEN ParseOk(out)
    ELSE LET r == try_set_attr(out, Head(keys).key, Head(keys).val)
         IN  IF r.ok THEN try_set_attrs(r.g, Tail(keys)) ELSE r

RECURSIVE from_field(_, _), from_fields(_, _), parse_group_spec(_)

\* GroupSpec::from_field
from_field(self, field) ==
    IF field.tag = "kv"
    THEN LET a == parse_item_attrs(field.attrs)
         IN  ParseOk(set_item(self, field.name, MainItemKind_from(field.kind),
                              a.settings, a.packed_bits))
    ELSE LET g == parse_group_spec(field)
         IN  IF g.ok THEN ParseOk(add_nested_group(self, g.g)) ELSE g

\* `for field in fields { out.from_field(input, field)? }`
from_fields(out, fields) ==
    IF fields = <<>> THEN ParseOk(out)
    ELSE LET r == from_field(out, Head(fields))
         IN  IF r.ok THEN from_fields(r.g, Tail(fields)) ELSE r

parse_group_spec(field) ==
    IF field.keys = <<>>
    THEN ParseErr("group spec lhs must contain value pairs")
    ELSE LET out == try_set_attrs(GroupSpec_default, field.keys)
         IN  IF out.ok THEN from_fields(out.g, field.body) ELSE out

\* impl Parse for GroupSpec
GroupSpec_parse(fields) ==
    IF fields = <<>>
    THEN ParseErr("expected information about the HID report")
    ELSE from_fields(GroupSpec_default, fields)

(***************************************************************************)
(* macros/src/lib.rs: DescCompilation                                      *)
(***************************************************************************)
DescCompilation_default ==
    [logical_minimum |-> None, logical_maximum |-> None,
     report_size |-> None, report_count |-> None]

\* handle_globals without the cache test: every global is pushed every time
handle_global_always(cached, tag, v) ==
    [cached |-> Some(v), bytes |-> emit_item(ItemType_Global, tag, v, TRUE)]

\* handle_globals testing only is_none(): a changed value is not pushed
handle_global_once(cached, tag, v) ==
    IF ~cached.some
    THEN [cached |-> Some(v), bytes |-> emit_item(ItemType_Global, tag, v, TRUE)]
    ELSE [cached |-> cached, bytes |-> <<>>]

\* one `if` of handle_globals: the cached value afterwards and the bytes pushed
handle_global(cached, tag, v) ==
    IF ~cached.some \/ cached.v # v
    THEN [cached |-> Some(v), bytes |-> emit_item(ItemType_Global, tag, v, TRUE)]
    ELSE [cached |-> cached, bytes |-> <<>>]

\* DescCompilation::handle_globals: the new cache and the bytes pushed
handle_globals(self, item) ==
    LET g1 == handle_global(self.logical_minimum, GlobalItemKind_LogicalMin, item.logical_minimum)
        g2 == handle_global(self.logical_maximum, GlobalItemKind_LogicalMax, item.logical_maximum)
        g3 == handle_global(self.report_size, GlobalItemKind_ReportSize, item.report_size)
        g4 == handle_global(self.report_count, GlobalItemKind_ReportCount, item.report_count)
    IN  [self |-> [logical_minimum |-> g1.cached, logical_maximum |-> g2.cached,
                   report_size |-> g3.cached, report_count |-> g4.cached],
         bytes |-> g1.bytes \o g2.bytes \o g3.bytes \o g4.bytes]

\* const_settings with set_variable(true) left out
const_settings_constant_only == SetBit(0, MainItemSetting_bit("constant"), TRUE)

\* const_settings of emit_field: set_constant(true), set_variable(true)
const_settings == SetBit(SetBit(0, MainItemSetting_bit("constant"), TRUE),
                         MainItemSetting_bit("variable"), TRUE)

\* emit_field that keeps the cache as it was before the padding item
emit_field_forgets_padding(self, i, item) ==
    LET g == handle_globals(self, item)
        item_data == IF i.settings.some THEN i.settings.v ELSE 2
        main == emit_item(ItemType_Main, item.kind, item_data, TRUE)
        padding == [item EXCEPT !.report_size = 1, !.report_count = item.padding_bits.v]
        pg == handle_globals(g.self, padding)
        pmain == emit_item(ItemType_Main, item.kind, const_settings, TRUE)
    IN  IF item.padding_bits.some
        THEN [self |-> g.self, bytes |-> g.bytes \o main \o pg.bytes \o pmain]
        ELSE [self |-> g.self, bytes |-> g.bytes \o main]

\* DescCompilation::emit_field: the new cache and the bytes pushed
emit_field(self, i, item) ==
    LET g == handle_globals(self, item)
        item_data == IF i.settings.some THEN i.settings.v ELSE 2
        main == emit_item(ItemType_Main, item.kind, item_data, TRUE)
        padding == [item EXCEPT !.report_size = 1, !.report_count = item.padding_bits.v]
        pg == handle_globals(g.self, padding)
        pmain == emit_item(ItemType_Main, item.kind, const_settings, TRUE)
    IN  IF item.padding_bits.some
        THEN [self |-> pg.self, bytes |-> g.bytes \o main \o pg.bytes \o pmain]
        ELSE [self |-> g.self, bytes |-> g.bytes \o main]

\* the items emit_group pushes before its children
emit_group_header(g) ==
    (IF g.usage_page.some
     THEN emit_item(ItemType_Global, GlobalItemKind_UsagePage, g.usage_page.v, FALSE) ELSE <<>>)
    \o (IF g.usage.some
        THEN emit_item(ItemType_Local, LocalItemKind_Usage, g.usage.v, FALSE) ELSE <<>>)
    \o (IF g.usage_min.some
        THEN emit_item(ItemType_Local, LocalItemKind_UsageMin, g.usage_min.v, FALSE) ELSE <<>>)
    \o (IF g.usage_max.some
        THEN emit_item(ItemType_Local, LocalItemKind_UsageMax, g.usage_max.v, FALSE) ELSE <<>>)
    \o (IF g.report_id.some
        THEN emit_item(ItemType_Global, GlobalItemKind_ReportID, g.report_id.v, FALSE) ELSE <<>>)
    \o (IF g.collection.some
        THEN emit_item(ItemType_Main, MainItemKind_Collection, g.collection.v, FALSE) ELSE <<>>)

\* the byte emit_group pushes after its children
emit_group_close(g) == IF g.collection.some THEN <<192>> ELSE <<>>

\* field_decl: the declared type of the field called name
field_decl(fields, name) ==
    LET found == {k \in 1..Len(fields) : fields[k].ident = name}
    IN  IF found = {} THEN [found |-> FALSE, ty |-> TyOther]
        ELSE [found |-> TRUE, ty |-> fields[CHOOSE k \in found : \A j \in found : k <= j].ty]

(***************************************************************************)
(* try_resolve_constant: the arms of the match, in order, as               *)
(* <<key_name, path, value>>.                                              *)
(***************************************************************************)
\* macros/src/lib.rs
lib_constants ==
    <<<<"collection", "PHYSICAL", 0>>,
      <<"collection", "APPLICATION", 1>>,
      <<"collection", "LOGICAL", 3>>,
      <<"collection", "REPORT", 3>>,
      <<"collection", "NAMED_ARRAY", 4>>,
      <<"collection", "USAGE_SWITCH", 5>>,
      <<"collection", "USAGE_MODIFIER", 6>>,
      <<"usage_page", "UNDEFINED", 0>>,
      <<"usage_page", "GENERIC_DESKTOP", 1>>,
      <<"usage_page", "SIMULATION_CONTROLS", 2>>,
      <<"usage_page", "VR_CONTROLS", 3>>,
      <<"usage_page", "SPORT_CONTROLS", 4>>,
      <<"usage_page", "GAME_CONTROLS", 5>>,
      <<"usage_page", "GENERIC_DEVICE_CONTROLS", 6>>,
      <<"usage_page", "KEYBOARD", 7>>,
      <<"usage_page", "LEDS", 8>>,
      <<"usage_page", "BUTTON", 9>>,
      <<"usage_page", "ORDINAL", 10>>,
      <<"usage_page", "TELEPHONY", 11>>,
      <<"usage_page", "CONSUMER", 12>>,
      <<"usage_page", "DIGITIZER", 13>>,
      <<"usage_page", "ALPHANUMERIC_DISPLAY", 20>>,
      <<"usage_page", "BARCODE_SCANNER", 140>>,
      <<"usage_page", "VENDOR_DEFINED_START", 65280>>,
      <<"usage_page", "VENDOR_DEFINED_END", 65535>>,
      <<"usage", "POINTER", 1>>,
      <<"usage", "MOUSE", 2>>,
      <<"usage", "JOYSTICK", 4>>,
      <<"usage", "GAMEPAD", 5>>,
      <<"usage", "KEYBOARD", 6>>,
      <<"usage", "KEYPAD", 7>>,
      <<"usage", "MULTI_AXIS_CONTROLLER", 8>>,
      <<"usage", "X", 48>>,
      <<"usage_min", "X", 48>>,
      <<"usage_max", "X", 48>>,
      <<"usage", "Y", 49>>,
      <<"usage_min", "Y", 49>>,
      <<"usage_max", "Y", 49>>,
      <<"usage", "Z", 50>>,
      <<"usage_min", "Z", 50>>,
      <<"usage_max", "Z", 50>>,
      <<"usage", "NUM_LOCK", 1>>,
      <<"usage", "CAPS_LOCK", 2>>,
      <<"usage", "SCROLL_LOCK", 3>>,
      <<"usage", "POWER", 6>>,
      <<"usage", "SHIFT", 7>>,
      <<"usage", "MUTE", 9>>,
      <<"usage", "RING", 24>>,
      <<"usage", "BUTTON_NONE", 0>>,
      <<"usage", "BUTTON_1", 1>>,
      <<"usage_min", "BUTTON_1", 1>>,
      <<"usage", "BUTTON_2", 2>>,
      <<"usage", "BUTTON_3", 3>>,
      <<"usage_max", "BUTTON_3", 3>>,
      <<"usage", "BUTTON_4", 4>>,
      <<"usage_max", "BUTTON_4", 4>>,
      <<"usage", "BUTTON_5", 5>>,
      <<"usage", "BUTTON_6", 6>>,
      <<"usage", "BUTTON_7", 7>>,
      <<"usage", "BUTTON_8", 8>>,
      <<"usage_max", "BUTTON_8", 8>>,
      <<"usage", "CLEAR_DISPLAY", 37>>,
      <<"usage", "DISPLAY_ENABLE", 38>>,
      <<"usage", "CHARACTER_REPORT", 43>>,
      <<"usage", "CHARACTER_DATA", 44>>>>

\* macros/src/spec.rs
spec_constants ==
    <<<<"collection", "PHYSICAL", 0>>,
      <<"collection", "APPLICATION", 1>>,
      <<"collection", "LOGICAL", 2>>,
      <<"collection", "REPORT", 3>>,
      <<"collection", "NAMED_ARRAY", 4>>,
      <<"collection", "USAGE_SWITCH", 5>>,
      <<"collection", "USAGE_MODIFIER", 6>>,
      <<"usage_page", "UNDEFINED", 0>>,
      <<"usage_page", "GENERIC_DESKTOP", 1>>,
      <<"usage_page", "SIMULATION_CONTROLS", 2>>,
      <<"usage_page", "VR_CONTROLS", 3>>,
      <<"usage_page", "SPORT_CONTROLS", 4>>,
      <<"usage_page", "GAME_CONTROLS", 5>>,
      <<"usage_page", "GENERIC_DEVICE_CONTROLS", 6>>,
      <<"usage_page", "KEYBOARD", 7>>,
      <<"usage_page", "LEDS", 8>>,
      <<"usage_page", "BUTTON", 9>>,
      <<"usage_page", "ORDINAL", 10>>,
      <<"usage_page", "TELEPHONY", 11>>,
      <<"usage_page", "CONSUMER", 12>>,
      <<"usage_page", "DIGITIZER", 13>>,
      <<"usage_page", "ALPHANUMERIC_DISPLAY", 20>>,
      <<"usage_page", "BARCODE_SCANNER", 140>>,
      <<"usage_page", "VENDOR_DEFINED_START", 65280>>,
      <<"usage_page", "VENDOR_DEFINED_END", 65535>>,
      <<"usage", "POINTER", 1>>,
      <<"usage", "MOUSE", 2>>,
      <<"usage", "JOYSTICK", 4>>,
      <<"usage", "GAMEPAD", 5>>,
      <<"usage", "KEYBOARD", 6>>,
      <<"usage", "KEYPAD", 7>>,
      <<"usage", "MULTI_AXIS_CONTROLLER", 8>>,
      <<"usage", "X", 48>>,
      <<"usage_min", "X", 48>>,
      <<"usage_max", "X", 48>>,
      <<"usage", "Y", 49>>,
      <<"usage_min", "Y", 49>>,
      <<"usage_max", "Y", 49>>,
      <<"usage", "Z", 50>>,
      <<"usage_min", "Z", 50>>,
      <<"usage_max", "Z", 50>>,
      <<"usage", "WHEEL", 56>>,
      <<"usage", "SYSTEM_CONTROL", 128>>,
      <<"usage", "NUM_LOCK", 1>>,
      <<"usage", "CAPS_LOCK", 2>>,
      <<"usage", "SCROLL_LOCK", 3>>,
      <<"usage", "POWER", 6>>,
      <<"usage", "SHIFT", 7>>,
      <<"usage", "MUTE", 9>>,
      <<"usage", "RING", 24>>,
      <<"usage", "BUTTON_NONE", 0>>,
      <<"usage", "BUTTON_1", 1>>,
      <<"usage_min", "BUTTON_1", 1>>,
      <<"usage", "BUTTON_2", 2>>,
      <<"usage", "BUTTON_3", 3>>,
      <<"usage_max", "BUTTON_3", 3>>,
      <<"usage", "BUTTON_4", 4>>,
      <<"usage_max", "BUTTON_4", 4>>,
      <<"usage", "BUTTON_5", 5>>,
      <<"usage", "BUTTON_6", 6>>,
      <<"usage", "BUTTON_7", 7>>,
      <<"usage", "BUTTON_8", 8>>,
      <<"usage_max", "BUTTON_8", 8>>,
      <<"usage", "CLEAR_DISPLAY", 37>>,
      <<"usage", "DISPLAY_ENABLE", 38>>,
      <<"usage", "CHARACTER_REPORT", 43>>,
      <<"usage", "CHARACTER_DATA", 44>>,
      <<"usage", "CONSUMER_CONTROL", 1>>,
      <<"usage", "NUMERIC_KEYPAD", 2>>,
      <<"usage", "PROGRAMMABLE_BUTTONS", 3>>,
      <<"usage", "MICROPHONE", 4>>,
      <<"usage", "HEADPHONE", 5>>,
      <<"usage", "GRAPHIC_EQUALIZER", 6>>,
      <<"usage", "AC_PAN", 568>>>>

\* `match (key_name, path)`: the first arm that matches, or `(_, _) => None`
resolve_in(table, key_name, path) ==
    LET hits == {i \in 1..Len(table) : table[i][1] = key_name /\ table[i][2] = path}
    IN  IF hits = {} THEN None
        ELSE Some(table[CHOOSE i \in hits : \A j \in hits : i <= j][3])

\* try_resolve_constant of macros/src/lib.rs
try_resolve_constant(key_name, path) == resolve_in(lib_constants, key_name, path)

\* try_resolve_constant of macros/src/spec.rs
spec_try_resolve_constant(key_name, path) == resolve_in(spec_constants, key_name, path)

\* the right-hand side of `key = ...` in a group spec's parameter list
RhsLit(n) == [kind |-> "Lit", num |-> n, path |-> ""]
RhsBigLit == [kind |-> "BigLit", num |-> 0, path |-> ""]
RhsPath(p) == [kind |-> "Path", num |-> 0, path |-> p]
RhsOther == [kind |-> "Other", num |-> 0, path |-> ""]

AttrOk(v) == [tag |-> "Ok", v |-> v, msg |-> ""]
AttrErr(msg) == [tag |-> "Err", v |-> 0, msg |-> msg]
RcNotRun == [tag |-> "NotRun", v |-> 0, msg |-> ""]

\* parse_group_spec: the value of one `key = rhs` of the parameter list
parse_group_attr(group_attr, right) ==
    LET val == CASE right.kind = "Lit" -> Some(right.num)
                 [] right.kind = "Path" -> try_resolve_constant(group_attr, right.path)
                 [] OTHER -> None
    IN  IF right.kind = "Path" /\ ~val.some THEN AttrErr("unrecognized constant")
        ELSE IF ~val.some
        THEN AttrErr("group spec attribute value must be a numeric literal or recognized constant")
        ELSE AttrOk(val.v)

(***************************************************************************)
(* The inputs: structs and specs the macro is applied to.                  *)
(***************************************************************************)
FieldName(k) == <<"f", CASE k = 1 -> "1" [] k = 2 -> "2" [] k = 3 -> "3" [] OTHER -> "4">>

Leaf(ty, kind, attrs) == [ty |-> ty, kind |-> kind, attrs |-> attrs]

PlainLeaves ==
    {Leaf(TyPath(<<id>>), kind, <<>>) :
        id \in {Id_u8, Id_u16, Id_i8, Id_i16}, kind \in {"input", "output"}}

PackedLeaves ==
    {Leaf(TyPath(<<Id_u8>>), "input", <<PackedBits(3)>>),
     Leaf(TyPath(<<Id_u8>>), "input", <<PackedBits(5)>>),
     Leaf(TyPath(<<Id_u8>>), "input", <<PackedBits(8)>>),
     Leaf(TyPath(<<Id_u16>>), "input", <<PackedBits(9)>>),
     Leaf(TyPath(<<Id_u8>>), "output", <<PackedBits(3)>>)}

SettingLeaves ==
    {Leaf(TyPath(<<Id_u8>>), "input", <<ItemSettings(<<"data", "array", "absolute">>)>>),
     Leaf(TyPath(<<Id_u8>>), "input", <<ItemSettings(<<"data", "variable", "relative">>)>>),
     Leaf(TyPath(<<Id_u8>>), "input",
          <<ItemSettings(<<"data", "array", "absolute", "not_null">>)>>)}

FailingLeaves ==
    {Leaf(TyPath(<<Id_u32>>), "input", <<>>),
     Leaf(TyPath(<<Id_u64>>), "input", <<>>),
     Leaf(TyArray(<<Id_u8>>, 3), "input", <<PackedBits(20)>>)}

Leaves == PlainLeaves \cup PackedLeaves \cup SettingLeaves \cup FailingLeaves

\* the struct and the item clauses that a sequence of leaves stands for
DeclOf(ls) == [k \in 1..Len(ls) |-> [ident |-> FieldName(k), ty |-> ls[k].ty]]
ClauseOf(ls, k) == ItemClause(FieldName(k), ls[k].kind, ls[k].attrs)
ClausesOf(ls) == [k \in 1..Len(ls) |-> ClauseOf(ls, k)]

LeafSeqs == UNION {[1..n -> Leaves] : n \in 1..MaxFields}

\* group parameter lists
KeysA == <<KV("collection", 1), KV("usage", 1), KV("usage_page", 65280)>>
KeysReport1 == <<KV("report_id", 1)>>
KeysReport2 == <<KV("report_id", 2)>>
KeysSysCtl == <<KV("collection", 1), KV("usage_page", 1), KV("usage", 128)>>
KeysSysCtlInner == <<KV("usage_min", 129), KV("usage_max", 183), KV("logical_min", 1)>>
KeysRange == <<KV("usage_min", 1), KV("usage_max", 3)>>
KeysUsages == <<KV("usage_page", 12), KV("usage", 1), KV("usage", 2), KV("usage_min", 1),
                KV("usage_max", 3), KV("report_id", 1), KV("collection", 1)>>
KeysUsagesOnly == <<KV("usage", 2), KV("usage", 1), KV("usage", 2)>>

Program(d, a) == [decl |-> d, args |-> a]

\* item clauses at the top level, or all in one group
FlatPrograms ==
    {Program(DeclOf(ls), ClausesOf(ls)) : ls \in LeafSeqs}
    \cup {Program(DeclOf(ls), <<GroupClause(keys, ClausesOf(ls))>>) :
            ls \in LeafSeqs, keys \in {KeysA, KeysReport1}}

\* two sibling groups of one item clause each
SiblingPrograms ==
    {Program(DeclOf(ls),
             <<GroupClause(k1, <<ClauseOf(ls, 1)>>), GroupClause(k2, <<ClauseOf(ls, 2)>>)>>) :
        ls \in [1..2 -> Leaves], k1 \in {KeysReport1, KeysA}, k2 \in {KeysReport2}}

\* a group in a group
NestedPrograms ==
    {Program(DeclOf(ls), <<GroupClause(k1, <<GroupClause(k2, ClausesOf(ls))>>)>>) :
        ls \in [1..1 -> Leaves], k1 \in {KeysA, KeysSysCtl},
        k2 \in {KeysRange, KeysSysCtlInner}}

\* one group whose parameter list repeats the key usage
UsagePrograms ==
    {Program(DeclOf(ls), <<GroupClause(keys, ClausesOf(ls))>>) :
        ls \in [1..1 -> Leaves], keys \in {KeysUsages, KeysUsagesOnly}}

\* item clauses whose kind is another word than input, output or feature
KindLeaves ==
    {Leaf(TyPath(<<Id_u8>>), kind, <<>>) : kind \in {"collection", "ecollection", "feature"}}
KindPrograms ==
    {Program(DeclOf(ls), <<GroupClause(keys, ClausesOf(ls))>>) :
        ls \in [1..1 -> KindLeaves], keys \in {KeysA, KeysReport1}}

Programs ==
    FlatPrograms \cup SiblingPrograms \cup NestedPrograms \cup UsagePrograms \cup KindPrograms

(***************************************************************************)
(* gen_hid_descriptor, step by step                                        *)
(***************************************************************************)
Frame(g, idx) == [spec |-> g, idx |-> idx]
Top == stack[Len(stack)]
Pop == SubSeq(stack, 1, Len(stack) - 1)

\* the TokenStream gen_hid_descriptor returns
OutNone == [tag |-> "none", desc |-> <<>>, msg |-> "", at |-> <<>>]
OutPanic == [tag |-> "panic", desc |-> <<>>, msg |-> "", at |-> <<>>]

\* the parts exercised on their own, at rest
RcIdle == [key_name |-> "", right |-> RhsOther, lib |-> RcNotRun, spec |-> RcNotRun, attr |-> RcNotRun]
GenIdle == [orig |-> <<>>, fields |-> <<>>, typ |-> 0, i |-> 0, elems |-> <<>>,
            ser |-> [tag |-> "NotRun", len |-> 0, body |-> <<>>, msg |-> ""],
            filtered |-> <<>>]
HidIdle == [tag |-> "none"]
ObsIdle == [tag |-> "none"]
EmIdle == [typ |-> 0, kind |-> 0, num |-> 0, signed |-> FALSE, bytes |-> <<>>, done |-> FALSE]
ExtIdle == rc = RcIdle /\ gen = GenIdle /\ hid = HidIdle /\ obs = ObsIdle /\ em = EmIdle

AnalysisIdle ==
    /\ an_in = [ft |-> TyOther, item |-> ItemSpec(MainItemKind_Input, None, None)]
    /\ an_out = [lib |-> NotRun, item |-> NotRun]

Init ==
    /\ build \in [overflow_checks : BOOLEAN]
    /\ \E p \in Programs : decl = p.decl /\ args = p.args
    /\ spec = GroupSpec_default
    /\ stack = <<>>
    /\ compiler = DescCompilation_default
    /\ elems = <<>>
    /\ log = <<>>
    /\ result = "start"
    /\ tokens = OutNone
    /\ AnalysisIdle
    /\ ExtIdle

\* gen_hid_descriptor with bytes pushed before the error put in the output
gen_hid_descriptor_partial(ok, bytes, msg, at) ==
    IF ok THEN [tag |-> "impl", desc |-> bytes, msg |-> "", at |-> <<>>]
    ELSE [tag |-> "compile_error", desc |-> bytes, msg |-> msg, at |-> at]

\* gen_hid_descriptor: `match compile(spec, &decl.fields)` and the quote!;
\* bytes are the elems of compile, msg and at the error and its field
gen_hid_descriptor_out(ok, bytes, msg, at) ==
    IF ok THEN [tag |-> "impl", desc |-> bytes, msg |-> "", at |-> <<>>]
    ELSE [tag |-> "compile_error", desc |-> <<>>, msg |-> msg, at |-> at]

\* GroupSpec's iterator backwards, as one order a hash map may give
GroupSpec_into_iter_reversed(g) ==
    [i \in 1..Len(g.field_order) |-> g.field_order[Len(g.field_order) + 1 - i]]

\* impl IntoIterator for GroupSpec: `for name in spec.clone()`
GroupSpec_into_iter(g) == g.field_order

\* parse_macro_input!(args as GroupSpec)
Parse ==
    /\ result = "start"
    /\ LET r == GroupSpec_parse(args)
       IN  /\ spec' = r.g
           /\ result' = IF r.ok THEN "parsed" ELSE "Err"
           /\ tokens' = IF r.ok THEN tokens
                        ELSE gen_hid_descriptor_out(FALSE, <<>>, r.msg, <<>>)
    /\ UNCHANGED <<build, decl, args, stack, compiler, elems, log, an_in, an_out>>
    /\ UNCHANGED ext_vars

\* compile: a fresh DescCompilation, and emit_group entered for the root
Compile ==
    /\ result = "parsed"
    /\ compiler' = DescCompilation_default
    /\ elems' = emit_group_header(spec)
    /\ stack' = <<Frame(spec, 1)>>
    /\ result' = "compiling"
    /\ UNCHANGED <<build, decl, args, spec, log, an_in, an_out, tokens>>
    /\ UNCHANGED ext_vars

\* emit_group's loop at a Spec::MainItem child
EmitChildItem ==
    /\ result = "compiling"
    /\ stack # <<>>
    /\ Top.idx <= Len(GroupSpec_into_iter(Top.spec))
    /\ LET name == GroupSpec_into_iter(Top.spec)[Top.idx]
           f == Top.spec.fields[name]
           d == field_decl(decl, name)
           a == analyze_field(d.ty, f.item)
           e == emit_field(compiler, f.item, a.descriptor_item)
       IN  /\ f.tag = "MainItem"
           /\ IF ~d.found \/ a.tag = "Panic"
              THEN /\ result' = "Panic"
                   /\ tokens' = OutPanic
                   /\ stack' = <<>>
                   /\ UNCHANGED <<compiler, elems, log>>
              ELSE IF a.tag = "Err"
              THEN /\ result' = "Err"
                   /\ tokens' = gen_hid_descriptor_out(FALSE, elems, a.msg, name)
                   /\ stack' = <<>>
                   /\ UNCHANGED <<compiler, elems, log>>
              ELSE /\ compiler' = e.self
                   /\ elems' = elems \o e.bytes
                   /\ log' = Append(log, [name |-> name, ty |-> d.ty, spec |-> f.item,
                                          item |-> a.descriptor_item,
                                          from |-> Len(elems), to |-> Len(elems) + Len(e.bytes)])
                   /\ stack' = [stack EXCEPT ![Len(stack)].idx = @ + 1]
                   /\ UNCHANGED <<result, tokens>>
    /\ UNCHANGED <<build, decl, args, spec, an_in, an_out>>
    /\ UNCHANGED ext_vars

\* emit_group's loop at a Spec::Collection child: the recursive call
EmitChildGroup ==
    /\ result = "compiling"
    /\ stack # <<>>
    /\ Top.idx <= Len(GroupSpec_into_iter(Top.spec))
    /\ LET f == Top.spec.fields[GroupSpec_into_iter(Top.spec)[Top.idx]]
       IN  /\ f.tag = "Collection"
           /\ elems' = elems \o emit_group_header(f.group)
           /\ stack' = Append(stack, Frame(f.group, 1))
    /\ UNCHANGED <<build, decl, args, spec, compiler, log, result, an_in, an_out, tokens>>
    /\ UNCHANGED ext_vars

\* emit_group after its loop: close the collection and return Ok(()); the
\* root's return ends compile and gen_hid_descriptor quotes the descriptor
EmitGroupReturn ==
    /\ result = "compiling"
    /\ stack # <<>>
    /\ Top.idx > Len(GroupSpec_into_iter(Top.spec))
    /\ elems' = elems \o emit_group_close(Top.spec)
    /\ stack' = IF Len(stack) = 1 THEN <<>>
                ELSE [Pop EXCEPT ![Len(stack) - 1].idx = @ + 1]
    /\ result' = IF Len(stack) = 1 THEN "Ok" ELSE result
    /\ tokens' = IF Len(stack) = 1 THEN gen_hid_descriptor_out(TRUE, elems', "", <<>>)
                ELSE tokens
    /\ UNCHANGED <<build, decl, args, spec, compiler, log, an_in, an_out>>
    /\ UNCHANGED ext_vars

Next == Parse \/ Compile \/ EmitChildItem \/ EmitChildGroup \/ EmitGroupReturn

Spec == Init /\ [][Next]_vars

(***************************************************************************)
(* Reading a descriptor back: the short items of a byte sequence, as a     *)
(* HID report-descriptor parser splits them.                               *)
(***************************************************************************)
DataLen(prefix) == CASE prefix % 4 = 0 -> 0 [] prefix % 4 = 1 -> 1
                     [] prefix % 4 = 2 -> 2 [] OTHER -> 4

RECURSIVE Items(_)
Items(bytes) ==
    IF bytes = <<>> THEN <<>>
    ELSE LET n == DataLen(Head(bytes))
             m == IF 1 + n <= Len(bytes) THEN 1 + n ELSE Len(bytes)
         IN  <<[typ |-> (Head(bytes) \div 4) % 4, tag |-> Head(bytes) \div 16,
                data |-> SubSeq(bytes, 2, m)]>>
             \o Items(SubSeq(bytes, m + 1, Len(bytes)))

\* the value a signed reader gives an item's data
RECURSIVE Magnitude(_, _)
Magnitude(data, flip) ==
    IF data = <<>> THEN 0
    ELSE (IF flip THEN 255 - Head(data) ELSE Head(data)) + 256 * Magnitude(Tail(data), flip)

SignedValue(data) ==
    IF data = <<>> THEN 0
    ELSE IF data[Len(data)] >= 128 THEN -Magnitude(data, TRUE) - 1
    ELSE Magnitude(data, FALSE)

IsGlobal(it, tag) == it.typ = ItemType_Global /\ it.tag = tag
IsFieldMain(it) ==
    it.typ = ItemType_Main
    /\ it.tag \in {MainItemKind_Input, MainItemKind_Output, MainItemKind_Feature}

\* the bytes pushed for the k-th item clause compiled, and their items
FieldBytes(k) == SubSeq(elems, log[k].from + 1, log[k].to)
FieldItems(k) == Items(FieldBytes(k))

Failed == result \in {"Err", "Panic"}

(***************************************************************************)
(* C1: scenario A.  struct {f1: u8, f2: u16} under                         *)
(* (collection = 0x01, usage = 0x01, usage_page = 0xff00) =                *)
(* { f1=input; f2=output; } compiles, and to exactly the bytes             *)
(* 06 00 FF 09 01 A1 01 15 00 26 FF 00 75 08 95 01 81 02                   *)
(* 27 FF FF 00 00 75 10 91 02 C0.                                          *)
(***************************************************************************)
ScenarioA_ls == <<Leaf(TyPath(<<Id_u8>>), "input", <<>>), Leaf(TyPath(<<Id_u16>>), "output", <<>>)>>
IsScenarioA ==
    /\ decl = DeclOf(ScenarioA_ls)
    /\ args = <<GroupClause(KeysA, ClausesOf(ScenarioA_ls))>>
ScenarioA_bytes ==
    <<6, 0, 255, 9, 1, 161, 1, 21, 0, 38, 255, 0, 117, 8, 149, 1, 129, 2,
      39, 255, 255, 0, 0, 117, 16, 145, 2, 192>>

ScenarioC_ls == <<Leaf(TyPath(<<Id_u8>>), "input", <<>>), Leaf(TyPath(<<Id_u8>>), "input", <<>>)>>
IsScenarioC ==
    /\ decl = DeclOf(ScenarioC_ls)
    /\ args = <<GroupClause(KeysReport1, <<ClauseOf(ScenarioC_ls, 1)>>),
                GroupClause(KeysReport2, <<ClauseOf(ScenarioC_ls, 2)>>)>>
ScenarioC_bytes == <<133, 1, 21, 0, 38, 255, 0, 117, 8, 149, 1, 129, 2, 133, 2, 129, 2>>

C6_ScenarioC ==
    IsScenarioC => /\ ~Failed
                   /\ result = "Ok" => elems = ScenarioC_bytes
C6_Witness == IsScenarioC /\ result = "Ok"

(***************************************************************************)
(* C7 as claimed: SystemControlReport, a u8 input with item_settings       *)
(* data,array,absolute,not_null in (usage_min = 0x81, usage_max = 0xB7,    *)
(* logical_min = 1) in (collection = APPLICATION, usage_page =             *)
(* GENERIC_DESKTOP, usage = SYSTEM_CONTROL), compiles, and to              *)
(* 05 01 09 80 A1 01 19 81 29 B7 15 01 26 FF 00 75 08 95 01 81 00 C0: the  *)
(* group's logical_min is emitted as Logical Minimum (1) before its child. *)
(***************************************************************************)
SysCtl_ls ==
    <<Leaf(TyPath(<<Id_u8>>), "input",
           <<ItemSettings(<<"data", "array", "absolute", "not_null">>)>>)>>
IsSysCtl ==
    /\ decl = DeclOf(SysCtl_ls)
    /\ args = <<GroupClause(KeysSysCtl, <<GroupClause(KeysSysCtlInner, ClausesOf(SysCtl_ls))>>)>>
SysCtl_bytes ==
    <<5, 1, 9, 128, 161, 1, 25, 129, 41, 183, 21, 1, 38, 255, 0, 117, 8, 149, 1, 129, 0, 192>>

C7_Claim ==
    IsSysCtl => /\ ~Failed
                /\ result = "Ok" => elems = SysCtl_bytes

(***************************************************************************)
(* C2 as claimed: value 0 is always encoded with one data byte 0x00; no    *)
(* item of a descriptor compiled without the allow_short quirk has an      *)
(* empty payload, except the End Collection byte.  An input item with      *)
(* settings data,array,absolute is 0x81 0x00, never the single byte 0x80.  *)
(***************************************************************************)
C2_Claim ==
    \A i \in 1..Len(Items(elems)) :
        LET it == Items(elems)[i]
        IN  it.data = <<>> => it.typ = ItemType_Main /\ it.tag = MainItemKind_EndCollection

(***************************************************************************)
(* C4: a u8 field with packed_bits 3 as input.  Its data item is an Input  *)
(* Main item under Report Size 1 / Report Count 3; it is followed directly *)
(* by Report Count 5 and a second Input Main item, the padding.            *)
(***************************************************************************)
\* the data of the last Global item of that tag in a sequence of items
LastGlobal(items, tag) ==
    LET at == {i \in 1..Len(items) : IsGlobal(items[i], tag)}
    IN  IF at = {} THEN <<>> ELSE items[CHOOSE i \in at : \A j \in at : j <= i].data

IsPacked3(k) ==
    /\ log[k].ty = TyPath(<<Id_u8>>)
    /\ log[k].spec.want_bits = Some(3)
    /\ log[k].spec.kind = MainItemKind_Input

\* the shape of the bytes of the k-th clause, with `pad` the padding item's data
Packed3Shape(k, pad) ==
    LET all == Items(SubSeq(elems, 1, log[k].to))
        n == Len(all)
        before == SubSeq(all, 1, n - 3)
    IN  /\ Len(FieldItems(k)) >= 3
        /\ all[n - 2].typ = ItemType_Main /\ all[n - 2].tag = MainItemKind_Input
        /\ LastGlobal(before, GlobalItemKind_ReportSize) = <<1>>
        /\ LastGlobal(before, GlobalItemKind_ReportCount) = <<3>>
        /\ IsGlobal(all[n - 1], GlobalItemKind_ReportCount) /\ all[n - 1].data = <<5>>
        /\ all[n].typ = ItemType_Main /\ all[n].tag = MainItemKind_Input
        /\ all[n].data = pad

\* C4 as claimed: the padding item carries the settings byte 0x06
C4_Claim == \A k \in 1..Len(log) : IsPacked3(k) => Packed3Shape(k, <<6>>)

\* C4 amended: the padding item carries the settings byte 0x03, that is
\* Constant (bit 0) and Variable (bit 1)
C4_Padding03 == \A k \in 1..Len(log) : IsPacked3(k) => Packed3Shape(k, <<3>>)
C4_Witness == \E k \in 1..Len(log) : IsPacked3(k) /\ result = "Ok"

(***************************************************************************)
(* C5: deduplication of the four globals between adjacent item clauses.    *)
(***************************************************************************)
FourGlobals ==
    {GlobalItemKind_LogicalMin, GlobalItemKind_LogicalMax,
     GlobalItemKind_ReportSize, GlobalItemKind_ReportCount}

ShapeOf(item) ==
    (GlobalItemKind_LogicalMin :> item.logical_minimum)
    @@ (GlobalItemKind_LogicalMax :> item.logical_maximum)
    @@ (GlobalItemKind_ReportSize :> item.report_size)
    @@ (GlobalItemKind_ReportCount :> item.report_count)

\* the shape of the last Main item pushed for an item clause: the padding
\* item's when it has padding bits
LastShapeOf(item) ==
    IF item.padding_bits.some
    THEN ShapeOf([item EXCEPT !.report_size = 1, !.report_count = item.padding_bits.v])
    ELSE ShapeOf(item)

\* the tags of the four globals pushed for the k-th clause before its data item
RECURSIVE GlobalsBeforeMain(_)
GlobalsBeforeMain(items) ==
    IF items = <<>> \/ IsFieldMain(Head(items)) THEN <<>>
    ELSE (IF Head(items).typ = ItemType_Global /\ Head(items).tag \in FourGlobals
          THEN <<Head(items).tag>> ELSE <<>>)
         \o GlobalsBeforeMain(Tail(items))

Differing(a, b) == {t \in FourGlobals : a[t] # b[t]}

Dedup(prev, k) ==
    LET diff == Differing(prev, ShapeOf(log[k].item))
        pushed == GlobalsBeforeMain(FieldItems(k))
    IN  /\ diff = {} => pushed = <<>>
        /\ Cardinality(diff) = 1 => Len(pushed) = 1 /\ pushed[1] \in diff

\* C5 as claimed: compared with the previous clause's own four values
C5_Claim ==
    \A k \in 2..Len(log) : Dedup(ShapeOf(log[k - 1].item), k)

\* C5 amended: compared with the last Main item of the previous clause,
\* which is its padding item when it has padding bits
C5_DedupAgainstLastMain ==
    \A k \in 2..Len(log) : Dedup(LastShapeOf(log[k - 1].item), k)
C5_Witness ==
    \E k \in 2..Len(log) :
        /\ Differing(ShapeOf(log[k - 1].item), ShapeOf(log[k].item)) = {}
        /\ ~log[k - 1].item.padding_bits.some
        /\ GlobalsBeforeMain(FieldItems(k)) = <<>>
        /\ log[k].to > log[k].from

(***************************************************************************)
(* analyze_field on its own: every field type and item spec of the bounds, *)
(* given to the analyzer of lib.rs and to the analyzer of item.rs.         *)
(***************************************************************************)
Id_core == <<"c", "o", "r", "e">>

ScalarIds == {Id_u8, Id_u16, Id_u32, Id_u64, Id_u128, Id_usize,
              Id_i8, Id_i16, Id_i32, Id_i64, Id_bool, Id_f32}
ElementIds == {Id_u8, Id_u16, Id_u32, Id_i8, Id_u64, Id_bool}

AnTypes ==
    {TyPath(<<id>>) : id \in ScalarIds}
    \cup {TyArray(<<id>>, n) : id \in ElementIds, n \in 0..MaxArrayLen}
    \cup {TyOther, TyArrayOfOther(2), TyPath(<<Id_core, Id_u8>>)}

AnItems ==
    {ItemSpec(kind, None, wb) :
        kind \in {MainItemKind_Input, MainItemKind_Output},
        wb \in {None} \cup {Some(n) : n \in 1..MaxWantBits}}

InitAnalyze ==
    /\ build \in [overflow_checks : BOOLEAN]
    /\ an_in \in [ft : AnTypes, item : AnItems]
    /\ an_out = [lib |-> NotRun, item |-> NotRun]
    /\ decl = <<>>
    /\ args = <<>>
    /\ spec = GroupSpec_default
    /\ stack = <<>>
    /\ compiler = DescCompilation_default
    /\ elems = <<>>
    /\ log = <<>>
    /\ result = "none"
    /\ tokens = OutNone
    /\ ExtIdle

\* analyze_field of lib.rs applied to the input
AnalyzeLib ==
    /\ an_out.lib = NotRun
    /\ an_out' = [an_out EXCEPT !.lib = analyze_field(an_in.ft, an_in.item)]
    /\ UNCHANGED <<build, decl, args, spec, stack, compiler, elems, log, result, an_in, tokens>>
    /\ UNCHANGED ext_vars

\* analyze_field of item.rs applied to the input
AnalyzeItem ==
    /\ an_out.item = NotRun
    /\ an_out' = [an_out EXCEPT !.item = item_analyze_field(an_in.ft, an_in.item)]
    /\ UNCHANGED <<build, decl, args, spec, stack, compiler, elems, log, result, an_in, tokens>>
    /\ UNCHANGED ext_vars

NextAnalyze == AnalyzeLib \/ AnalyzeItem

SpecAnalyze == InitAnalyze /\ [][NextAnalyze]_vars

\* what the claims say of a field type, read off the type alone
ScalarBits(id) ==
    CASE id \in {Id_u8, Id_i8} -> 8
      [] id \in {Id_u16, Id_i16} -> 16
      [] id \in {Id_u32, Id_i32} -> 32
      [] OTHER -> 0
IsSignedId(id) == id \in {Id_i8, Id_i16, Id_i32}

\* a scalar of a path type of one segment, or an array of one
HasScalar(ft) ==
    /\ Len(ft.segments) = 1
    /\ ft.shape = "Path" \/ (ft.shape = "Array" /\ ft.elem_shape = "Path")
Supported(ft) == HasScalar(ft) /\ ScalarBits(ft.segments[1]) > 0
ArrayLen(ft) == IF ft.shape = "Array" THEN ft.len ELSE 1
StorageWidth(ft) == ScalarBits(ft.segments[1]) * ArrayLen(ft)

Outputs == {r \in {an_out.lib, an_out.item} : r.tag # "NotRun"}
WantBits == an_in.item.want_bits

(***************************************************************************)
(* C3 as claimed: with packed_bits N on a field of storage width W >= N,   *)
(* analyze_field returns logical range 0..1, report_size 1, report_count N *)
(* (not multiplied by the array length), padding_bits W - N when W > N and *)
(* none when W = N.                                                        *)
(***************************************************************************)
C3_Claim ==
    \A r \in Outputs :
        (Supported(an_in.ft) /\ ArrayLen(an_in.ft) >= 1
           /\ WantBits.some /\ StorageWidth(an_in.ft) >= WantBits.v)
        => /\ r.tag = "Ok"
           /\ r.descriptor_item.logical_minimum = 0
           /\ r.descriptor_item.logical_maximum = 1
           /\ r.descriptor_item.report_size = 1
           /\ r.descriptor_item.report_count = WantBits.v
           /\ r.descriptor_item.padding_bits =
                 IF StorageWidth(an_in.ft) > WantBits.v
                 THEN Some(StorageWidth(an_in.ft) - WantBits.v) ELSE None

(***************************************************************************)
(* C8 as claimed: without packed_bits, an unsigned N-bit field has logical *)
(* range 0 .. 2^N - 1 and a signed one -(2^(N-1) - 1) .. 2^(N-1) - 1, for  *)
(* N = 8, 16 and 32.  (2^N - 1 is stated as: odd, with half 2^(N-1) - 1.)  *)
(***************************************************************************)
C8_Claim ==
    \A r \in Outputs :
        (Supported(an_in.ft) /\ ArrayLen(an_in.ft) >= 1 /\ ~WantBits.some)
        => LET n == ScalarBits(an_in.ft.segments[1])
               d == r.descriptor_item
           IN  /\ r.tag = "Ok"
               /\ IF IsSignedId(an_in.ft.segments[1])
                  THEN /\ d.logical_minimum = -Pow2Minus1(n - 1)
                       /\ d.logical_maximum = Pow2Minus1(n - 1)
                  ELSE /\ d.logical_minimum = 0
                       /\ d.logical_maximum % 2 = 1
                       /\ (d.logical_maximum - 1) \div 2 = Pow2Minus1(n - 1)

(***************************************************************************)
(* C9 as claimed: a field whose scalar type (or array element type) is not *)
(* u8, u16, u32, i8, i16 or i32 makes analyze_field return an error, never *)
(* a field descriptor; u64, i64 and u128 are rejected.                     *)
(***************************************************************************)
C9_Claim ==
    \A r \in Outputs : ~Supported(an_in.ft) => r.tag = "Err"

(***************************************************************************)
(* C10 as claimed: with packed_bits N on a field of storage width W < N,   *)
(* analyze_field returns an error: no descriptor, no underflow of W - N.   *)
(***************************************************************************)
C10_Claim ==
    \A r \in Outputs :
        (Supported(an_in.ft) /\ ArrayLen(an_in.ft) >= 1
           /\ WantBits.some /\ StorageWidth(an_in.ft) < WantBits.v)
        => r.tag = "Err"

(***************************************************************************)
(* try_resolve_constant on its own: every key and right-hand side of the   *)
(* tables, and some of neither, given to the resolver of lib.rs, to the    *)
(* resolver of spec.rs and to parse_group_spec's handling of one pair.     *)
(***************************************************************************)
TablePaths == {lib_constants[i][2] : i \in 1..Len(lib_constants)}
              \cup {spec_constants[i][2] : i \in 1..Len(spec_constants)}
UnknownPaths == {"BOGUS", "Logical", "BUTTON_9"}
GroupKeys == {"collection", "usage_page", "usage", "usage_min", "usage_max",
              "report_id", "logical_min"}
Rights == {RhsPath(p) : p \in TablePaths \cup UnknownPaths}
          \cup {RhsLit(n) : n \in {0, 1, 255}} \cup {RhsBigLit, RhsOther}

RcResult(opt) == [tag |-> IF opt.some THEN "Some" ELSE "None", v |-> opt.v, msg |-> ""]

InitResolve ==
    /\ build \in [overflow_checks : BOOLEAN]
    /\ rc \in [key_name : GroupKeys, right : Rights,
               lib : {RcNotRun}, spec : {RcNotRun}, attr : {RcNotRun}]
    /\ gen = GenIdle
    /\ hid = HidIdle
    /\ obs = ObsIdle
    /\ em = EmIdle
    /\ AnalysisIdle
    /\ decl = <<>>
    /\ args = <<>>
    /\ spec = GroupSpec_default
    /\ stack = <<>>
    /\ compiler = DescCompilation_default
    /\ elems = <<>>
    /\ log = <<>>
    /\ result = "none"
    /\ tokens = OutNone

CoreIdleVars == <<build, decl, args, spec, stack, compiler, elems, log, result, an_in, an_out, tokens,
                  hid, obs, em>>

\* try_resolve_constant of lib.rs applied to a path
ResolveLib ==
    /\ rc.right.kind = "Path"
    /\ rc.lib = RcNotRun
    /\ rc' = [rc EXCEPT !.lib = RcResult(try_resolve_constant(rc.key_name, rc.right.path))]
    /\ UNCHANGED <<CoreIdleVars, gen>>

\* try_resolve_constant of spec.rs applied to a path
ResolveSpec ==
    /\ rc.right.kind = "Path"
    /\ rc.spec = RcNotRun
    /\ rc' = [rc EXCEPT !.spec = RcResult(spec_try_resolve_constant(rc.key_name, rc.right.path))]
    /\ UNCHANGED <<CoreIdleVars, gen>>

\* parse_group_spec reading the value of one pair
ParseAttr ==
    /\ rc.attr = RcNotRun
    /\ rc' = [rc EXCEPT !.attr = parse_group_attr(rc.key_name, rc.right)]
    /\ UNCHANGED <<CoreIdleVars, gen>>

NextResolve == ResolveLib \/ ResolveSpec \/ ParseAttr

SpecResolve == InitResolve /\ [][NextResolve]_vars

\* the collection kinds as the claim lists them
CollectionKinds ==
    [PHYSICAL |-> 0, APPLICATION |-> 1, LOGICAL |-> 2, REPORT |-> 3,
     NAMED_ARRAY |-> 4, USAGE_SWITCH |-> 5, USAGE_MODIFIER |-> 6]

RcOutputs == {r \in {rc.lib, rc.spec} : r # RcNotRun}

(***************************************************************************)
(* C11 as claimed: for key collection the resolver maps PHYSICAL,          *)
(* APPLICATION, LOGICAL, REPORT, NAMED_ARRAY, USAGE_SWITCH, USAGE_MODIFIER *)
(* to 0..6; a name that is no collection kind (under key collection), or   *)
(* that no key binds, resolves to none, and parse_group_spec then returns  *)
(* an error, never a value.                                                *)
(***************************************************************************)
C11_Claim ==
    /\ \A r \in RcOutputs :
          /\ (rc.key_name = "collection" /\ rc.right.path \in DOMAIN CollectionKinds)
                => r = RcResult(Some(CollectionKinds[rc.right.path]))
          /\ ((rc.key_name = "collection" /\ rc.right.path \notin DOMAIN CollectionKinds)
                \/ rc.right.path \in UnknownPaths)
                => r.tag = "None"
    /\ (rc.right.kind = "Path" /\ rc.lib.tag = "None" /\ rc.attr # RcNotRun)
          => rc.attr.tag = "Err"

\* C11 without the kind LOGICAL
C11_ExceptLogical ==
    rc.right.path # "LOGICAL" => C11_Claim

(***************************************************************************)
(* The attribute's arguments read in declaration order, for C12 and C13.   *)
(***************************************************************************)
\* the item clauses of a clause list, groups opened in place
RECURSIVE Flatten(_)
Flatten(cs) ==
    IF cs = <<>> THEN <<>>
    ELSE (IF Head(cs).tag = "kv" THEN <<Head(cs)>> ELSE Flatten(Head(cs).body))
         \o Flatten(Tail(cs))

ClauseItemSpec(c) ==
    LET a == parse_item_attrs(c.attrs)
    IN  ItemSpec(MainItemKind_from(c.kind), a.settings, a.packed_bits)

ClauseAnalysis(c) == analyze_field(field_decl(decl, c.name).ty, ClauseItemSpec(c))

Finished == result \in {"Ok", "Err", "Panic"}

\* the clause whose analysis is the first not to succeed, 0 if none
FirstFailure ==
    LET flat == Flatten(args)
        bad == {k \in 1..Len(flat) : ClauseAnalysis(flat[k]).tag # "Ok"}
    IN  IF bad = {} THEN 0 ELSE CHOOSE k \in bad : \A j \in bad : k <= j

(***************************************************************************)
(* C12: when the first field whose analysis does not succeed (clauses in   *)
(* traversal order) fails with an error, gen_hid_descriptor ends with that *)
(* error alone: the compile error names that field and carries its         *)
(* message, every earlier clause was compiled, and the output holds no     *)
(* descriptor byte.  An output with a desc() exists only after Ok.         *)
(***************************************************************************)
C12_Claim ==
    /\ tokens.tag = "impl" => result = "Ok"
    /\ tokens.desc # <<>> => result = "Ok"
    /\ (Finished /\ GroupSpec_parse(args).ok /\ FirstFailure > 0)
          => LET c == Flatten(args)[FirstFailure]
             IN  ClauseAnalysis(c).tag = "Err"
                 => /\ result = "Err"
                    /\ tokens = [tag |-> "compile_error", desc |-> <<>>,
                                 msg |-> ClauseAnalysis(c).msg, at |-> c.name]
                    /\ Len(log) = FirstFailure - 1

\* an error after bytes were pushed for an earlier field
C12_Witness ==
    /\ result = "Err"
    /\ Len(log) >= 1
    /\ elems # <<>>
    /\ tokens.tag = "compile_error"

\* the descriptor of a clause list, read in declaration order
RECURSIVE CompileClauses(_, _)
CompileClauses(cs, st) ==
    IF cs = <<>> THEN st
    ELSE LET c == Head(cs)
         IN  IF c.tag = "kv"
             THEN LET e == emit_field(st.self, ClauseItemSpec(c),
                                      ClauseAnalysis(c).descriptor_item)
                  IN  CompileClauses(Tail(cs),
                                     [self |-> e.self, bytes |-> st.bytes \o e.bytes])
             ELSE LET g == try_set_attrs(GroupSpec_default, c.keys).g
                      inner == CompileClauses(c.body,
                                   [self |-> st.self,
                                    bytes |-> st.bytes \o emit_group_header(g)])
                  IN  CompileClauses(Tail(cs),
                                     [inner EXCEPT !.bytes = @ \o emit_group_close(g)])

DeclaredDescriptor ==
    CompileClauses(args, [self |-> DescCompilation_default, bytes |-> <<>>]).bytes

(***************************************************************************)
(* C13: a successful compilation emits the item clauses in declaration     *)
(* order and its descriptor is the one function of the struct and the spec *)
(* read in that order: nothing of it depends on an order of the fields map.*)
(***************************************************************************)
C13_Claim ==
    /\ \A k \in 1..Len(log) :
          k <= Len(Flatten(args)) /\ log[k].name = Flatten(args)[k].name
    /\ result = "Ok" => /\ Len(log) = Len(Flatten(args))
                        /\ elems = DeclaredDescriptor
                        /\ tokens.desc = DeclaredDescriptor

\* two fields of different shapes compiled, so that their order shows
C13_Witness ==
    /\ result = "Ok"
    /\ Len(log) = 2
    /\ log[1].item # log[2].item

(***************************************************************************)
(* macros/src/packer.rs: gen_serializer                                    *)
(***************************************************************************)
\* ReportUnaryField as analyze_field of item.rs returns it
ReportUnaryField(ident, a) ==
    [ident |-> ident, bit_width |-> a.bit_width, descriptor_item |-> a.descriptor_item]

\* quote!({ s.serialize_element(&(self.#ident as cast))?; }); cast "self"
\* stands for &self.#ident, and NoTokens for the empty quote!()
Invocation(ident, cast) == [ident |-> ident, cast |-> cast]
NoTokens == [ident |-> <<>>, cast |-> "none"]

make_unary_serialize_invocation(bits, ident, signed) ==
    CASE bits = 8 /\ ~signed -> Invocation(ident, "u8")
      [] bits = 16 /\ ~signed -> Invocation(ident, "u16")
      [] bits = 32 /\ ~signed -> Invocation(ident, "u32")
      [] bits = 8 /\ signed -> Invocation(ident, "i8")
      [] bits = 16 /\ signed -> Invocation(ident, "i16")
      [] bits = 32 /\ signed -> Invocation(ident, "i32")
      [] OTHER -> NoTokens

SerOk(es) == [rc |-> "Ok", elems |-> es, msg |-> ""]
SerErr(es, msg) == [rc |-> "Err", elems |-> es, msg |-> msg]

\* the shape match of gen_serializer's loop body
gen_serializer_shape(field, es) ==
    LET d == field.descriptor_item
        signed == d.logical_minimum < 0
    IN  CASE d.report_size = 1 ->
               IF d.report_count = 1
               THEN SerOk(Append(es, make_unary_serialize_invocation(
                                         field.bit_width, field.ident, signed)))
               ELSE SerOk(Append(es, Invocation(field.ident, "self")))
          [] d.report_size = 8 ->
               IF d.report_count = 1
               THEN SerOk(Append(es, make_unary_serialize_invocation(8, field.ident, signed)))
               ELSE IF d.report_count <= 32
               THEN SerOk(Append(es, Invocation(field.ident, "self")))
               ELSE SerOk(es)
          [] d.report_size \in {16, 32} ->
               IF d.report_count = 1
               THEN SerOk(Append(es, make_unary_serialize_invocation(
                                         d.report_size, field.ident, signed)))
               ELSE SerErr(es, "Arrays of 16/32bit fields not supported")
          [] OTHER -> SerErr(es, "Unsupported report size for serialization")

\* the loop body without `if kind != typ { continue; }`
gen_serializer_field_any_kind(field, typ, es) == gen_serializer_shape(field, es)

\* one iteration of gen_serializer's loop
gen_serializer_field(field, typ, es) ==
    IF field.descriptor_item.kind # typ THEN SerOk(es)
    ELSE gen_serializer_shape(field, es)

(***************************************************************************)
(* macros/src/split.rs: filter_struct_fields                               *)
(***************************************************************************)
FilterOk(opt) == [tag |-> "Ok", some |-> opt.some, fields |-> opt.v]
FilterErr == [tag |-> "Err", some |-> FALSE, fields |-> <<>>]
FilterNotRun == [tag |-> "NotRun", some |-> FALSE, fields |-> <<>>]

\* filter_struct_fields returning an empty struct in place of None
filter_struct_fields_never_none(orig, fields, keep) ==
    LET keeps == {fields[i].ident : i \in {j \in 1..Len(fields) :
                                              fields[j].descriptor_item.kind = keep}}
        Kept(f) == f.ident \in keeps
    IN  IF ~orig.named THEN FilterErr
        ELSE FilterOk(Some(SelectSeq(orig.fields, Kept)))

filter_struct_fields(orig, fields, keep) ==
    LET keeps == {fields[i].ident : i \in {j \in 1..Len(fields) :
                                              fields[j].descriptor_item.kind = keep}}
        Kept(f) == f.ident \in keeps
        filtered == SelectSeq(orig.fields, Kept)
    IN  IF ~orig.named THEN FilterErr
        ELSE IF filtered = <<>> THEN FilterOk([some |-> FALSE, v |-> <<>>])
        ELSE FilterOk(Some(filtered))

(***************************************************************************)
(* The structs given to gen_serializer and filter_struct_fields: each      *)
(* field has a type and attributes, and the kind of its item clause, or    *)
(* "unused" when the spec has no clause for it.                            *)
(***************************************************************************)
GenLeaf(ty, wb, kind) == [ty |-> ty, want_bits |-> wb, kind |-> kind]

GenShapes ==
    {<<TyPath(<<Id_u8>>), None>>, <<TyPath(<<Id_i8>>), None>>, <<TyPath(<<Id_u16>>), None>>,
     <<TyPath(<<Id_u8>>), Some(1)>>, <<TyPath(<<Id_u8>>), Some(3)>>,
     <<TyArray(<<Id_u8>>, 2), None>>, <<TyArray(<<Id_u8>>, 33), None>>,
     <<TyArray(<<Id_u16>>, 2), None>>,
     <<TyPath(<<Id_u64>>), None>>, <<TyPath(<<Id_u64>>), Some(1)>>}

PackerLeaves == {GenLeaf(sh[1], sh[2], kind) : sh \in GenShapes, kind \in {"input", "output"}}

SplitLeaves ==
    {GenLeaf(ty, wb, kind) :
        ty \in {TyPath(<<Id_u8>>), TyPath(<<Id_i16>>)}, wb \in {None, Some(3)},
        kind \in {"input", "output", "feature", "unused"}}

GenAnalysis(leaf) ==
    item_analyze_field(leaf.ty, ItemSpec(MainItemKind_from(leaf.kind), None, leaf.want_bits))

\* the struct: named fields with their attributes
OrigOf(ls) ==
    [named |-> TRUE,
     fields |-> [k \in 1..Len(ls) |->
                   [ident |-> FieldName(k), ty |-> ls[k].ty,
                    attrs |-> IF ls[k].want_bits.some
                              THEN <<PackedBits(ls[k].want_bits.v)>> ELSE <<>>]]]
TupleStruct == [named |-> FALSE, fields |-> <<>>]

\* the analyzed fields, in order, of the fields the spec has a clause for
RECURSIVE AnalyzedFrom(_, _)
AnalyzedFrom(ls, k) ==
    IF k > Len(ls) THEN <<>>
    ELSE (IF ls[k].kind = "unused" THEN <<>>
          ELSE <<ReportUnaryField(FieldName(k), GenAnalysis(ls[k]))>>)
         \o AnalyzedFrom(ls, k + 1)

AllAnalyzed(ls) == \A k \in 1..Len(ls) : ls[k].kind # "unused" => GenAnalysis(ls[k]).tag = "Ok"

SerNotRun == [tag |-> "NotRun", len |-> 0, body |-> <<>>, msg |-> ""]
GenKinds == {MainItemKind_Input, MainItemKind_Output, MainItemKind_Feature}

CoreIdle ==
    /\ decl = <<>>
    /\ args = <<>>
    /\ spec = GroupSpec_default
    /\ stack = <<>>
    /\ compiler = DescCompilation_default
    /\ elems = <<>>
    /\ log = <<>>
    /\ result = "none"
    /\ tokens = OutNone
    /\ AnalysisIdle
    /\ hid = HidIdle
    /\ obs = ObsIdle
    /\ em = EmIdle

InitPacker ==
    /\ build \in [overflow_checks : BOOLEAN]
    /\ \E ls \in UNION {[1..n -> PackerLeaves] : n \in 1..MaxGenFields} :
       \E typ \in {MainItemKind_Input, MainItemKind_Output} :
          /\ AllAnalyzed(ls)
          /\ gen = [orig |-> OrigOf(ls), fields |-> AnalyzedFrom(ls, 1), typ |-> typ,
                    i |-> 1, elems |-> <<>>, ser |-> SerNotRun, filtered |-> <<>>]
    /\ rc = RcIdle
    /\ CoreIdle

\* gen_serializer: one iteration of `for field in fields`
SerializeField ==
    /\ gen.ser.tag = "NotRun"
    /\ gen.i <= Len(gen.fields)
    /\ LET r == gen_serializer_field(gen.fields[gen.i], gen.typ, gen.elems)
       IN  gen' = IF r.rc = "Err"
                  THEN [gen EXCEPT !.ser = [tag |-> "Err", len |-> 0, body |-> <<>>,
                                            msg |-> r.msg]]
                  ELSE [gen EXCEPT !.elems = r.elems, !.i = @ + 1]
    /\ UNCHANGED <<CoreIdleVars, rc>>

\* gen_serializer after the loop: serialize_tuple(#idx), the elems, s.end()
SerializeEnd ==
    /\ gen.ser.tag = "NotRun"
    /\ gen.i > Len(gen.fields)
    /\ gen' = [gen EXCEPT !.ser = [tag |-> "Ok", len |-> Len(gen.elems),
                                   body |-> gen.elems, msg |-> ""]]
    /\ UNCHANGED <<CoreIdleVars, rc>>

NextPacker == SerializeField \/ SerializeEnd

SpecPacker == InitPacker /\ [][NextPacker]_vars

InitSplit ==
    /\ build \in [overflow_checks : BOOLEAN]
    /\ \E ls \in UNION {[1..n -> SplitLeaves] : n \in 1..MaxGenFields} :
       \E orig \in {OrigOf(ls), TupleStruct} :
          /\ AllAnalyzed(ls)
          /\ gen = [orig |-> orig, fields |-> AnalyzedFrom(ls, 1), typ |-> 0,
                    i |-> 0, elems |-> <<>>, ser |-> SerNotRun,
                    filtered |-> [k \in GenKinds |-> FilterNotRun]]
    /\ rc = RcIdle
    /\ CoreIdle

\* filter_struct_fields(orig, fields, keep), for a kind not yet asked for
FilterStructFields ==
    /\ \E keep \in GenKinds :
          /\ gen.filtered[keep] = FilterNotRun
          /\ gen' = [gen EXCEPT !.filtered[keep] =
                                    filter_struct_fields(gen.orig, gen.fields, keep)]
    /\ UNCHANGED <<CoreIdleVars, rc>>

NextSplit == FilterStructFields

SpecSplit == InitSplit /\ [][NextSplit]_vars

\* a field the serializer passes over without an error
SerSkipped(f) == f.descriptor_item.report_size = 8 /\ f.descriptor_item.report_count > 32
SerCounted(f) == f.descriptor_item.kind = gen.typ /\ ~SerSkipped(f)

(***************************************************************************)
(* C14 as claimed: a serializer that gen_serializer returns declares the   *)
(* tuple length n, where n is the number of fields of the requested        *)
(* direction that are not 8-bit fields with report_count > 32, and its     *)
(* body is exactly one serialize_element call for each of them, in field   *)
(* order.                                                                  *)
(***************************************************************************)
C14_Claim ==
    gen.ser.tag = "Ok"
    => LET counted == SelectSeq(gen.fields, SerCounted)
       IN  /\ gen.ser.len = Len(counted)
           /\ Len(gen.ser.body) = Len(counted)
           /\ \A j \in 1..Len(gen.ser.body) :
                 /\ gen.ser.body[j].cast # "none"
                 /\ j <= Len(counted) => gen.ser.body[j].ident = counted[j].ident

\* C14 for fields of bit width 8, 16 or 32
C14_SupportedWidths ==
    (\A k \in 1..Len(gen.fields) : gen.fields[k].bit_width \in {8, 16, 32}) => C14_Claim

SerBadShape(f) ==
    \/ f.descriptor_item.report_size \in {16, 32} /\ f.descriptor_item.report_count > 1
    \/ f.descriptor_item.report_size \notin {1, 8, 16, 32}

(***************************************************************************)
(* C15: gen_serializer ends with an error, and no serializer, exactly when *)
(* some field of the requested direction has report_size 16 or 32 with     *)
(* report_count > 1 or a report_size outside {1, 8, 16, 32}; a field of    *)
(* the other direction never causes an error.                              *)
(***************************************************************************)
C15_Claim ==
    gen.ser.tag \in {"Ok", "Err"}
    => /\ gen.ser.tag = "Err"
             <=> \E k \in 1..Len(gen.fields) :
                    /\ gen.fields[k].descriptor_item.kind = gen.typ
                    /\ SerBadShape(gen.fields[k])
       /\ gen.ser.tag = "Err" => gen.ser.body = <<>> /\ gen.ser.len = 0

\* an error at a field that follows a field of the other direction
C15_Witness ==
    /\ gen.ser.tag = "Err"
    /\ gen.i = 2
    /\ gen.fields[1].descriptor_item.kind # gen.typ

\* the kind of the item the spec binds a struct field to, if any
KindsOf(f) ==
    {gen.fields[i].descriptor_item.kind :
        i \in {j \in 1..Len(gen.fields) : gen.fields[j].ident = f.ident}}

\* the kinds whose filtered struct holds the field
LandsIn(f) ==
    {keep \in GenKinds :
        /\ gen.filtered[keep].tag = "Ok"
        /\ \E k \in 1..Len(gen.filtered[keep].fields) : gen.filtered[keep].fields[k] = f}

AllFiltered == \A keep \in GenKinds : gen.filtered[keep].tag # "NotRun"

\* what filter_struct_fields returned for keep is the struct's fields of
\* that kind, in order and unchanged, or none when there is no such field
FilteredExactly(keep) ==
    LET OfKind(f) == keep \in KindsOf(f)
        want == SelectSeq(gen.orig.fields, OfKind)
    IN  (gen.orig.named /\ gen.filtered[keep].tag # "NotRun")
        => /\ gen.filtered[keep].tag = "Ok"
           /\ gen.filtered[keep].some <=> want # <<>>
           /\ gen.filtered[keep].fields = want

HID_REQ_GET_REPORT == 1
HID_REQ_GET_IDLE == 2
HID_REQ_GET_PROTOCOL == 3
HID_REQ_SET_REPORT == 9
HID_REQ_SET_IDLE == 10
HID_REQ_SET_PROTOCOL == 11
HID_DESC_DESCTYPE_HID == 33
HID_DESC_DESCTYPE_HID_REPORT == 34
\* control::Request::GET_DESCRIPTOR
GET_DESCRIPTOR == 6

HidProtocolMode_Boot == 0
HidProtocolMode_Report == 1
CONTROL_BUF_LEN == 128

\* a conversion that takes 1 for Report and every other byte for Boot
HidProtocolMode_from_one(mode) ==
    IF mode = HidProtocolMode_Report THEN HidProtocolMode_Report ELSE HidProtocolMode_Boot

\* impl From<u8> for HidProtocolMode
HidProtocolMode_from(mode) ==
    IF mode = HidProtocolMode_Boot THEN HidProtocolMode_Boot ELSE HidProtocolMode_Report

\* impl From<u8> for ReportType
ReportType_from(rt) ==
    CASE rt = 1 -> "Input" [] rt = 2 -> "Output" [] rt = 3 -> "Feature" [] OTHER -> "Reserved"

determine_protocol_setting(settings) ==
    IF settings.protocol \in {"Keyboard", "Mouse"}
    THEN IF settings.config \in {"DefaultBehavior", "ForceReport"}
         THEN Some(HidProtocolMode_Report)
         ELSE Some(HidProtocolMode_Boot)
    ELSE None

\* seq is not a field of Report: it names the request that stored the report
NoReport == [some |-> FALSE, info |-> [report_type |-> "Reserved", report_id |-> 0, len |-> 0],
             buf |-> <<>>, seq |-> 0]

\* HIDClass::new_with_settings, new_ep_in_with_settings, new_ep_out_with_settings
HIDClass_new(settings, in_ep, out_ep) ==
    [out_ep |-> out_ep, in_ep |-> in_ep, set_report_buf |-> NoReport,
     protocol |-> determine_protocol_setting(settings), settings |-> settings]

Ok(v) == [ok |-> TRUE, v |-> v, err |-> ""]
Err(e) == [ok |-> FALSE, v |-> 0, err |-> e]
IsErr(r, e) == ~r.ok /\ r.err = e

\* the protocol test of push_input with only the Boot half
protocol_mismatch_boot_only(h) ==
    /\ h.settings.protocol \in {"Keyboard", "Mouse"}
    /\ h.protocol.some
    /\ h.protocol.v = HidProtocolMode_Boot /\ h.settings.subclass # "Boot"

\* the protocol test at the head of push_input and push_raw_input
protocol_mismatch(h) ==
    /\ h.settings.protocol \in {"Keyboard", "Mouse"}
    /\ h.protocol.some
    /\ \/ h.protocol.v = HidProtocolMode_Report /\ h.settings.subclass # "NoSubClass"
       \/ h.protocol.v = HidProtocolMode_Boot /\ h.settings.subclass # "Boot"

\* push_input: serialized is the result of ssmarshal::serialize, written
\* the result of ep.write
push_input(h, serialized, written) ==
    IF protocol_mismatch(h) THEN [ret |-> Err("InvalidState"), wrote |-> FALSE]
    ELSE IF h.in_ep
    THEN IF ~serialized.ok THEN [ret |-> Err("BufferOverflow"), wrote |-> FALSE]
         ELSE [ret |-> written, wrote |-> TRUE]
    ELSE [ret |-> Err("InvalidEndpoint"), wrote |-> FALSE]

push_raw_input(h, written) ==
    IF protocol_mismatch(h) THEN [ret |-> Err("InvalidState"), wrote |-> FALSE]
    ELSE IF h.in_ep THEN [ret |-> written, wrote |-> TRUE]
    ELSE [ret |-> Err("InvalidEndpoint"), wrote |-> FALSE]

\* pull_raw_report that clears the stored report when the buffer is too short
pull_raw_report_drop(h, data_len) ==
    IF h.set_report_buf.some
    THEN IF data_len < h.set_report_buf.info.len
         THEN [h |-> [h EXCEPT !.set_report_buf = NoReport], ret |-> Err("BufferOverflow"),
               data |-> <<>>]
         ELSE [h |-> [h EXCEPT !.set_report_buf = NoReport],
               ret |-> Ok(h.set_report_buf.info),
               data |-> SubSeq(h.set_report_buf.buf, 1, h.set_report_buf.info.len)]
    ELSE [h |-> h, ret |-> Err("WouldBlock"), data |-> <<>>]

\* pull_raw_report that leaves the stored report in place
pull_raw_report_keep(h, data_len) ==
    IF h.set_report_buf.some
    THEN IF data_len < h.set_report_buf.info.len
         THEN [h |-> h, ret |-> Err("BufferOverflow"), data |-> <<>>]
         ELSE [h |-> h, ret |-> Ok(h.set_report_buf.info),
               data |-> SubSeq(h.set_report_buf.buf, 1, h.set_report_buf.info.len)]
    ELSE [h |-> h, ret |-> Err("WouldBlock"), data |-> <<>>]

\* pull_raw_report: data is what was copied into the caller's buffer
pull_raw_report(h, data_len) ==
    IF h.set_report_buf.some
    THEN IF data_len < h.set_report_buf.info.len
         THEN [h |-> h, ret |-> Err("BufferOverflow"), data |-> <<>>]
         ELSE [h |-> [h EXCEPT !.set_report_buf = NoReport],
               ret |-> Ok(h.set_report_buf.info),
               data |-> SubSeq(h.set_report_buf.buf, 1, h.set_report_buf.info.len)]
    ELSE [h |-> h, ret |-> Err("WouldBlock"), data |-> <<>>]

get_protocol_mode(h) ==
    IF h.settings.protocol \notin {"Keyboard", "Mouse"}
    THEN Err("Unsupported")
    ELSE IF h.protocol.some THEN Ok(h.protocol.v) ELSE Err("InvalidState")

\* set_protocol_mode without the test of settings.protocol
set_protocol_mode_any(h, mode, config) ==
    [h |-> [h EXCEPT !.protocol =
                          CASE config = "DefaultBehavior" -> Some(mode)
                            [] config = "ForceBoot" -> Some(HidProtocolMode_Boot)
                            [] OTHER -> Some(HidProtocolMode_Report),
                      !.settings.config = config],
     ret |-> Ok(0)]

set_protocol_mode(h, mode, config) ==
    IF h.settings.protocol \notin {"Keyboard", "Mouse"}
    THEN [h |-> h, ret |-> Err("Unsupported")]
    ELSE [h |-> [h EXCEPT !.protocol =
                               CASE config = "DefaultBehavior" -> Some(mode)
                                 [] config = "ForceBoot" -> Some(HidProtocolMode_Boot)
                                 [] OTHER -> Some(HidProtocolMode_Report),
                           !.settings.config = config],
          ret |-> Ok(0)]

\* a control request of type Class: relevant is what the handler tests
\* before it looks at the request (control_out: `recipient == Interface &&
\* index == if_num`, control_in: `index == if_num`)
Request(relevant, request, value, length, data) ==
    [relevant |-> relevant, request_type |-> "Class", request |-> request, value |-> value,
     length |-> length, data |-> data, seq |-> 0]

\* the same request with type Standard
Standard(req) == [req EXCEPT !.request_type = "Standard"]

\* the HID_REQ_SET_PROTOCOL arm without the test of settings.config
set_protocol_request_unconditional(h, req) ==
    IF h.protocol.some
    THEN [h |-> [h EXCEPT !.protocol = Some(HidProtocolMode_from(req.value % 256))],
          xfer |-> "accept"]
    ELSE [h |-> h, xfer |-> "reject"]

\* control_out: the HID_REQ_SET_PROTOCOL arm
set_protocol_request(h, req) ==
    IF h.protocol.some
    THEN [h |-> IF h.settings.config = "DefaultBehavior"
                THEN [h EXCEPT !.protocol = Some(HidProtocolMode_from(req.value % 256))]
                ELSE h,
          xfer |-> "accept"]
    ELSE [h |-> h, xfer |-> "reject"]

\* the HID_REQ_SET_REPORT arm with a rejection that keeps the stored report
set_report_request_keep(h, req) ==
    IF req.length > CONTROL_BUF_LEN
    THEN [h |-> h, xfer |-> "reject"]
    ELSE [h |-> [h EXCEPT !.set_report_buf =
                    [some |-> TRUE,
                     info |-> [report_type |-> ReportType_from(req.value \div 256),
                               report_id |-> req.value % 256,
                               len |-> req.length],
                     buf |-> [i \in 1..CONTROL_BUF_LEN |->
                                IF i <= req.length THEN req.data[i] ELSE 0],
                     seq |-> req.seq]],
          xfer |-> "accept"]

\* control_out: the HID_REQ_SET_REPORT arm
set_report_request(h, req) ==
    IF req.length > CONTROL_BUF_LEN
    THEN [h |-> [h EXCEPT !.set_report_buf = NoReport], xfer |-> "reject"]
    ELSE [h |-> [h EXCEPT !.set_report_buf =
                    [some |-> TRUE,
                     info |-> [report_type |-> ReportType_from(req.value \div 256),
                               report_id |-> req.value % 256,
                               len |-> req.length],
                     buf |-> [i \in 1..CONTROL_BUF_LEN |->
                                IF i <= req.length THEN req.data[i] ELSE 0],
                     seq |-> req.seq]],
          xfer |-> "accept"]

\* UsbClass::control_out
control_out(h, req) ==
    IF ~req.relevant THEN [h |-> h, xfer |-> "none"]
    ELSE CASE req.request = HID_REQ_SET_IDLE -> [h |-> h, xfer |-> "accept"]
           [] req.request = HID_REQ_SET_PROTOCOL -> set_protocol_request(h, req)
           [] req.request = HID_REQ_SET_REPORT -> set_report_request(h, req)
           [] OTHER -> [h |-> h, xfer |-> "reject"]

\* UsbClass::control_in: data is what accept_with sends (the bytes of the
\* two descriptors are not modelled); the handler has no access to change
\* the HIDClass other than through h
control_in(h, req) ==
    IF ~req.relevant THEN [h |-> h, xfer |-> "none", data |-> <<>>]
    ELSE CASE req.request_type = "Standard" /\ req.request = GET_DESCRIPTOR ->
                 IF req.value \div 256 \in {HID_DESC_DESCTYPE_HID_REPORT, HID_DESC_DESCTYPE_HID}
                 THEN [h |-> h, xfer |-> "accept", data |-> <<>>]
                 ELSE [h |-> h, xfer |-> "none", data |-> <<>>]
           [] req.request_type = "Class" /\ req.request = HID_REQ_GET_REPORT ->
                 [h |-> h, xfer |-> "reject", data |-> <<>>]
           [] req.request_type = "Class" /\ req.request = HID_REQ_GET_IDLE ->
                 [h |-> h, xfer |-> "reject", data |-> <<>>]
           [] req.request_type = "Class" /\ req.request = HID_REQ_GET_PROTOCOL ->
                 IF h.protocol.some
                 THEN [h |-> h, xfer |-> "accept", data |-> <<h.protocol.v>>]
                 ELSE [h |-> h, xfer |-> "reject", data |-> <<>>]
           [] OTHER -> [h |-> h, xfer |-> "none", data |-> <<>>]

(***************************************************************************)
(* A HIDClass in use: the device's firmware calls push_input,              *)
(* push_raw_input, pull_raw_report and set_protocol_mode, and the host     *)
(* sends control OUT requests, in any order.  xfer.data() holds the        *)
(* wLength bytes of the data stage; ep.write returns one of the results    *)
(* UsbBus::write documents.                                                *)
(***************************************************************************)
HidSubClasses == {"NoSubClass", "Boot"}
HidProtocols == {"Generic", "Keyboard", "Mouse"}
ProtocolModeConfigs == {"DefaultBehavior", "ForceBoot", "ForceReport"}
HidProtocolModes == {HidProtocolMode_Boot, HidProtocolMode_Report}
HidClassSettingsSet ==
    [subclass : HidSubClasses, protocol : HidProtocols, config : ProtocolModeConfigs]
\* new / new_with_settings, new_ep_in*, new_ep_out*
Constructors == {<<TRUE, TRUE>>, <<TRUE, FALSE>>, <<FALSE, TRUE>>}
WriteResults == {Ok(2), Err("WouldBlock"), Err("BufferOverflow"), Err("InvalidEndpoint")}
SerializeResults == {Ok(2), Err("EndOfStream")}
PullBufferLens == {1, 2}
NoRequest == Request(FALSE, 0, 0, 0, <<>>)
SetProtocolValues == {0, 1, 2, 256}
SetReportValues == {2 * 256, 3 * 256 + 1}
SetReportLengths == {0, 2, CONTROL_BUF_LEN, CONTROL_BUF_LEN + 1}
DataStage(seq, length) == [i \in 1..length |-> (16 * seq + i) % 256]
ControlRequests(seq) ==
    {Request(TRUE, HID_REQ_SET_PROTOCOL, v, 0, <<>>) : v \in SetProtocolValues}
    \cup {Request(TRUE, HID_REQ_SET_REPORT, v, 2, DataStage(seq, 2)) : v \in SetReportValues}
    \cup {Request(TRUE, HID_REQ_SET_REPORT, 2 * 256, l, DataStage(seq, l)) :
             l \in SetReportLengths}
    \cup {Request(TRUE, HID_REQ_SET_IDLE, 0, 0, <<>>), Request(TRUE, HID_REQ_GET_REPORT, 0, 0, <<>>),
          Request(FALSE, HID_REQ_SET_PROTOCOL, 0, 0, <<>>),
          Request(FALSE, HID_REQ_SET_REPORT, 2 * 256, 2, DataStage(seq, 2))}
    \* the standard SET_INTERFACE (alternate setting 0 or 1): its code is 0x0B,
    \* the code of HID_REQ_SET_PROTOCOL
    \cup {Standard(Request(TRUE, HID_REQ_SET_PROTOCOL, v, 0, <<>>)) : v \in {0, 1}}

\* the control IN requests the host sends
ControlInRequests ==
    {Request(TRUE, HID_REQ_GET_PROTOCOL, 0, 1, <<>>), Request(FALSE, HID_REQ_GET_PROTOCOL, 0, 1, <<>>),
     Request(TRUE, HID_REQ_GET_REPORT, 256, 2, <<>>), Request(TRUE, HID_REQ_GET_IDLE, 0, 1, <<>>),
     Standard(Request(TRUE, HID_REQ_GET_PROTOCOL, 0, 1, <<>>))}
    \cup {Standard(Request(TRUE, GET_DESCRIPTOR, t * 256, 9, <<>>)) :
             t \in {HID_DESC_DESCTYPE_HID, HID_DESC_DESCTYPE_HID_REPORT, 35}}

KeyboardOrMouse(h) == h.settings.protocol \in {"Keyboard", "Mouse"}

NoCall == [op |-> "", mode |-> 0, config |-> "", req |-> NoRequest, seq |-> 0, data_len |-> 0,
           ret |-> Ok(0), xfer |-> "none", wrote |-> FALSE, data |-> <<>>]

InitHid ==
    /\ \E settings \in HidClassSettingsSet, c \in Constructors :
          hid = HIDClass_new(settings, c[1], c[2])
    /\ obs = [n |-> 0, last |-> NoCall, since |-> FALSE, delivered |-> <<>>,
              set_by |-> NoCall, accepted |-> NoCall, unpulled |-> 0,
              overflow |-> NoReport, retried |-> FALSE]
    /\ em = EmIdle
    /\ rc = RcIdle
    /\ gen = GenIdle
    /\ build = [overflow_checks |-> FALSE]   \* no arithmetic of hid_class.rs can overflow
    /\ decl = <<>>
    /\ args = <<>>
    /\ spec = GroupSpec_default
    /\ stack = <<>>
    /\ compiler = DescCompilation_default
    /\ elems = <<>>
    /\ log = <<>>
    /\ result = "none"
    /\ tokens = OutNone
    /\ AnalysisIdle

HidIdleVars == <<build, decl, args, spec, stack, compiler, elems, log, result, an_in, an_out,
                 tokens, rc, gen, em>>

PushInput ==
    /\ obs.n < MaxOps
    /\ \E serialized \in SerializeResults, written \in WriteResults :
          LET r == push_input(hid, serialized, written)
          IN  obs' = [obs EXCEPT !.n = @ + 1,
                                 !.last = [NoCall EXCEPT !.op = "push_input", !.ret = r.ret,
                                                         !.wrote = r.wrote]]
    /\ UNCHANGED <<hid, HidIdleVars>>

PushRawInput ==
    /\ obs.n < MaxOps
    /\ \E written \in WriteResults :
          LET r == push_raw_input(hid, written)
          IN  obs' = [obs EXCEPT !.n = @ + 1,
                                 !.last = [NoCall EXCEPT !.op = "push_raw_input",
                                                         !.ret = r.ret, !.wrote = r.wrote]]
    /\ UNCHANGED <<hid, HidIdleVars>>

PullRawReport ==
    /\ obs.n < MaxOps
    /\ \E data_len \in PullBufferLens :
          LET r == pull_raw_report(hid, data_len)
          IN  /\ hid' = r.h
              /\ obs' = [obs EXCEPT !.n = @ + 1,
                                    !.last = [NoCall EXCEPT !.op = "pull_raw_report",
                                                            !.data_len = data_len,
                                                            !.ret = r.ret, !.data = r.data,
                                                            !.seq = IF r.ret.ok
                                                                    THEN hid.set_report_buf.seq
                                                                    ELSE 0],
                                    !.since = IF r.ret.ok THEN FALSE ELSE @,
                                    !.unpulled = IF r.ret.ok THEN 0 ELSE @,
                                    \* overflow: the report that was stored when a
                                    \* pull last failed with BufferOverflow, until it
                                    \* is pulled or a SET_REPORT request is answered
                                    !.overflow = IF IsErr(r.ret, "BufferOverflow")
                                                 THEN hid.set_report_buf
                                                 ELSE IF r.ret.ok THEN NoReport ELSE @,
                                    !.retried = IF r.ret.ok THEN obs.overflow.some ELSE @,
                                    !.delivered = IF r.ret.ok
                                                  THEN Append(@, hid.set_report_buf.seq)
                                                  ELSE @]
    /\ UNCHANGED HidIdleVars

SetProtocolMode ==
    /\ obs.n < MaxOps
    /\ \E mode \in HidProtocolModes, config \in ProtocolModeConfigs :
          LET r == set_protocol_mode(hid, mode, config)
              call == [NoCall EXCEPT !.op = "set_protocol_mode", !.mode = mode,
                                     !.config = config, !.ret = r.ret]
          IN  /\ hid' = r.h
              /\ obs' = [obs EXCEPT !.n = @ + 1, !.last = call,
                                    !.set_by = IF r.ret.ok THEN call ELSE @]
    /\ UNCHANGED HidIdleVars

GetProtocolMode ==
    /\ obs.n < MaxOps
    /\ obs' = [obs EXCEPT !.n = @ + 1,
                          !.last = [NoCall EXCEPT !.op = "get_protocol_mode",
                                                  !.ret = get_protocol_mode(hid)]]
    /\ UNCHANGED <<hid, HidIdleVars>>

ControlIn ==
    /\ obs.n < MaxOps
    /\ \E req \in ControlInRequests :
          LET r == control_in(hid, req)
          IN  /\ hid' = r.h
              /\ obs' = [obs EXCEPT !.n = @ + 1,
                                    !.last = [NoCall EXCEPT !.op = "control_in", !.req = req,
                                                            !.xfer = r.xfer, !.data = r.data]]
    /\ UNCHANGED HidIdleVars

ControlOut ==
    /\ obs.n < MaxOps
    /\ \E req \in ControlRequests(obs.n + 1) :
          LET r == control_out(hid, [req EXCEPT !.seq = obs.n + 1])
              call == [NoCall EXCEPT !.op = "control_out", !.req = req, !.seq = obs.n + 1,
                                     !.xfer = r.xfer]
          IN  /\ hid' = r.h
              /\ obs' = [obs EXCEPT !.n = @ + 1, !.last = call,
                                    !.since = IF req.relevant /\ req.request = HID_REQ_SET_REPORT
                                                 /\ r.xfer = "accept"
                                              THEN TRUE ELSE @,
                                    !.unpulled = IF req.relevant /\ req.request = HID_REQ_SET_REPORT
                                                    /\ r.xfer = "accept"
                                                 THEN @ + 1 ELSE @,
                                    !.accepted = IF req.relevant /\ req.request = HID_REQ_SET_REPORT
                                                    /\ r.xfer = "accept"
                                                 THEN call ELSE @,
                                    !.overflow = IF req.relevant /\ req.request = HID_REQ_SET_REPORT
                                                 THEN NoReport ELSE @]
    /\ UNCHANGED HidIdleVars

NextHid ==
    \/ PushInput
    \/ PushRawInput
    \/ PullRawReport
    \/ GetProtocolMode
    \/ SetProtocolMode
    \/ ControlIn
    \/ ControlOut

SpecHid == InitHid /\ [][NextHid]_vars

\* a control OUT request to the interface that carries the code of
\* HID_REQ_SET_PROTOCOL: control_out does not look at request_type
IsSetProtocol(call) ==
    call.op = "control_out" /\ call.req.relevant /\ call.req.request = HID_REQ_SET_PROTOCOL

(* C17: on a Keyboard or Mouse HIDClass whose config was set to ForceBoot  *)
(* (ForceReport) by set_protocol_mode, the protocol mode is Boot (Report)  *)
(* whatever mode argument the call had, and it stays so however many       *)
(* SET_PROTOCOL requests the host sends: each of them is accepted and      *)
(* leaves the mode alone.                                                  *)
C17_Claim ==
    (KeyboardOrMouse(hid) /\ obs.set_by.op = "set_protocol_mode"
        /\ hid.settings.config # "DefaultBehavior")
    => /\ hid.settings.config = obs.set_by.config
       /\ hid.settings.config = "ForceBoot" => hid.protocol = Some(HidProtocolMode_Boot)
       /\ hid.settings.config = "ForceReport" => hid.protocol = Some(HidProtocolMode_Report)
       /\ IsSetProtocol(obs.last) => obs.last.xfer = "accept"

\* set_protocol_mode(Report, ForceBoot), then the host asks for the report protocol
C17_Witness ==
    /\ KeyboardOrMouse(hid)
    /\ obs.set_by.op = "set_protocol_mode"
    /\ obs.set_by.mode = HidProtocolMode_Report
    /\ obs.set_by.config = "ForceBoot"
    /\ IsSetProtocol(obs.last)
    /\ obs.last.req.value = 1
    /\ obs.last.xfer = "accept"
    /\ hid.protocol = Some(HidProtocolMode_Boot)

NoDuplicates(q) == \A i, j \in 1..Len(q) : q[i] = q[j] => i = j

\* what SET_REPORT request `req` asks the class to store
ReportInfoOf(req) ==
    [report_type |-> ReportType_from(req.value \div 256), report_id |-> req.value % 256,
     len |-> req.length]

(* C18: a pull_raw_report made when no SET_REPORT was accepted since the   *)
(* last successful pull returns WouldBlock; a successful pull returns the  *)
(* type, id and length of the last accepted SET_REPORT with the first len  *)
(* bytes of its data and leaves no stored report, and no accepted          *)
(* SET_REPORT is delivered by two successful pulls.                        *)
C18_Claim ==
    [][obs'.last.op = "pull_raw_report"
         => /\ ~obs.since => IsErr(obs'.last.ret, "WouldBlock")
            /\ obs'.last.ret.ok
                 => /\ obs.since
                    /\ obs'.last.ret.v = ReportInfoOf(obs.accepted.req)
                    /\ obs'.last.data = SubSeq(obs.accepted.req.data, 1, obs.accepted.req.length)
                    /\ obs'.last.seq = obs.accepted.seq
                    /\ ~hid'.set_report_buf.some
                    /\ NoDuplicates(obs'.delivered)]_vars

\* a SET_REPORT of two bytes was pulled, and the next pull found nothing
C18_Witness ==
    /\ obs.last.op = "pull_raw_report"
    /\ IsErr(obs.last.ret, "WouldBlock")
    /\ Len(obs.delivered) = 1
    /\ obs.accepted.req.length = 2
    /\ obs.delivered[1] = obs.accepted.seq

IsPush(call) == call.op \in {"push_input", "push_raw_input"}

ModeMismatchesSubclass(h) ==
    \/ h.protocol = Some(HidProtocolMode_Report) /\ h.settings.subclass # "NoSubClass"
    \/ h.protocol = Some(HidProtocolMode_Boot) /\ h.settings.subclass # "Boot"

(* C19: on a Keyboard or Mouse HIDClass, push_input and push_raw_input     *)
(* return InvalidState, having written nothing to the IN endpoint, exactly *)
(* when the protocol mode does not match the subclass, also when the class *)
(* has no IN endpoint; on a Generic HIDClass they never return             *)
(* InvalidState.                                                           *)
C19_Claim ==
    IsPush(obs.last)
    => /\ KeyboardOrMouse(hid)
            => /\ IsErr(obs.last.ret, "InvalidState") <=> ModeMismatchesSubclass(hid)
               /\ IsErr(obs.last.ret, "InvalidState") => ~obs.last.wrote
               /\ (ModeMismatchesSubclass(hid) /\ ~hid.in_ep)
                     => IsErr(obs.last.ret, "InvalidState")
       /\ hid.settings.protocol = "Generic" => ~IsErr(obs.last.ret, "InvalidState")

\* a boot keyboard or mouse without IN endpoint, pushed to in report mode
C19_Witness ==
    /\ obs.last.op = "push_raw_input"
    /\ KeyboardOrMouse(hid)
    /\ hid.settings.subclass = "Boot"
    /\ hid.protocol = Some(HidProtocolMode_Report)
    /\ ~hid.in_ep
    /\ IsErr(obs.last.ret, "InvalidState")
    /\ ~obs.last.wrote

StartsAsConfigured(h) ==
    KeyboardOrMouse(h)
    => /\ h.settings.config \in {"DefaultBehavior", "ForceReport"}
            => h.protocol = Some(HidProtocolMode_Report)
       /\ h.settings.config = "ForceBoot" => h.protocol = Some(HidProtocolMode_Boot)

ChangedBy(call) == IsSetProtocol(call) \/ call.op = "set_protocol_mode"

EmitBoundaries ==
    {127 * 256, 128 * 256, 254 * 256 + 255, 255 * 256, 32767, 32768, 32769, 65535, 65536,
     65537, 16777215, 16777216, 2147483647,
     -32767, -32768, -32769, -65535, -65536, -16777216, -2147483647}
EmitValues == (-MaxEmit..MaxEmit) \cup EmitBoundaries
EmitTags == {<<ItemType_Global, GlobalItemKind_LogicalMin>>,
             <<ItemType_Global, GlobalItemKind_ReportCount>>,
             <<ItemType_Main, MainItemKind_Input>>,
             <<ItemType_Local, LocalItemKind_Usage>>}

InitEmit ==
    /\ \E t \in EmitTags, num \in EmitValues, signed \in BOOLEAN :
          em = [typ |-> t[1], kind |-> t[2], num |-> num, signed |-> signed,
                bytes |-> <<>>, done |-> FALSE]
    /\ build = [overflow_checks |-> FALSE]   \* `num as i32` never panics
    /\ rc = RcIdle
    /\ gen = GenIdle
    /\ decl = <<>>
    /\ args = <<>>
    /\ spec = GroupSpec_default
    /\ stack = <<>>
    /\ compiler = DescCompilation_default
    /\ elems = <<>>
    /\ log = <<>>
    /\ result = "none"
    /\ tokens = OutNone
    /\ AnalysisIdle
    /\ hid = HidIdle
    /\ obs = ObsIdle

EmitItem ==
    /\ ~em.done
    /\ em' = [em EXCEPT !.bytes = emit_item(em.typ, em.kind, em.num, em.signed),
                        !.done = TRUE]
    /\ UNCHANGED <<build, decl, args, spec, stack, compiler, elems, log, result, an_in,
                   an_out, tokens, rc, gen, hid, obs>>

NextEmit == EmitItem

SpecEmit == InitEmit /\ [][NextEmit]_vars

\* the data bytes of the item pushed
Payload == Tail(em.bytes)

(* C21: when emit_item is called with signed = true, sign-extending the    *)
(* little-endian payload it pushed from the payload's own length gives     *)
(* back the value.                                                         *)
C21_Claim == (em.done /\ em.signed) => SignedValue(Payload) = em.num

(* C21 holds for the values whose shortened payload does not have its top  *)
(* bit set: 128..254 and 32768..65279 are the ones emit shortens wrongly.  *)
C21_ExceptTopBit ==
    (em.done /\ em.signed /\ em.num \notin (128..254) \cup (32768..65279))
    => SignedValue(Payload) = em.num

\* emit_item reached emit (it did not return the zero-byte Input item)
EmitCalled == em.done /\ ~(em.typ = ItemType_Main /\ em.kind = MainItemKind_Input /\ em.num = 0)

\* the fewest bytes among 1, 2 and 4 that keep the value: zero-extended
\* when unsigned (a negative num stands for a 32-bit pattern of 2^31 or
\* more), sign-extended when signed
ShortestLen(num, signed) ==
    IF signed
    THEN IF num \in -128..127 THEN 1 ELSE IF num \in -32768..32767 THEN 2 ELSE 4
    ELSE IF num \in 0..255 THEN 1 ELSE IF num \in 0..65535 THEN 2 ELSE 4

(* C22: for every value and signedness, emit pushes the shortest payload   *)
(* among 1, 2 and 4 bytes from which the value can be recovered, also for  *)
(* negative values such as -127.                                           *)
C22_Claim == EmitCalled => Len(Payload) = ShortestLen(em.num, em.signed)

\* the payload length of a signed item: 4 bytes for a negative value, the
\* unsigned length otherwise, one size up when the top payload byte is 0xFF
SignedLen(num) ==
    IF num < 0 THEN 4
    ELSE IF num <= 254 THEN 1
    ELSE IF num <= 254 * 256 + 255 THEN 2
    ELSE 4

(* C22, amended: an unsigned value gets the shortest payload among 1, 2    *)
(* and 4 bytes that zero-extends to it; a signed value gets 4 bytes when   *)
(* it is negative (-127 is pushed as 81 FF FF FF) and otherwise the length *)
(* of its unsigned payload, or the next length when the top byte of that   *)
(* payload would be 0xFF.                                                  *)
C22_Amended ==
    EmitCalled
    => /\ ~em.signed => Len(Payload) = ShortestLen(em.num, FALSE)
       /\ em.signed => Len(Payload) = SignedLen(em.num)
       /\ em.num >= 0 => Magnitude(Payload, FALSE) = em.num
       /\ em.num < 0 => SignedValue(Payload) = em.num

\* Logical Minimum -127, pushed with four data bytes
C22_Witness ==
    /\ EmitCalled
    /\ em.signed
    /\ em.num = -127
    /\ em.bytes = <<ItemPrefix(em.kind, em.typ, 3), 129, 255, 255, 255>>

(***************************************************************************)
(* analyze_field: the bits a descriptor accounts for                       *)
(***************************************************************************)
\* report_size * report_count plus the padding bits of an accepted field
AccountedBits(r) ==
    r.descriptor_item.report_size * r.descriptor_item.report_count
    + (IF r.descriptor_item.padding_bits.some THEN r.descriptor_item.padding_bits.v ELSE 0)

\* scalar bit width times array length (the accepted width of a type that
\* is none of the six supported ones is the bit_width returned for it)
FieldStorageWidth(r) ==
    IF Supported(an_in.ft) THEN StorageWidth(an_in.ft) ELSE r.bit_width * ArrayLen(an_in.ft)

(* C23: for every field analyze_field accepts, report_size * report_count  *)
(* plus padding_bits (0 when absent) is the field's storage width: scalar  *)
(* bit width times array length, bit-packed or not.                        *)
C23_Claim ==
    \A r \in Outputs : r.tag = "Ok" => AccountedBits(r) = FieldStorageWidth(r)

(* C23 holds of every accepted field without packed_bits, and of every     *)
(* accepted scalar whose packed_bits do not exceed its width.              *)
C23_PlainOrScalar ==
    \A r \in Outputs :
        (r.tag = "Ok"
           /\ \/ ~WantBits.some
              \/ an_in.ft.shape = "Path" /\ WantBits.v <= r.bit_width)
        => AccountedBits(r) = FieldStorageWidth(r)

(***************************************************************************)
(* The items a group's parameter list gives rise to                        *)
(***************************************************************************)
\* the program is one group of item clauses
IsOneGroup ==
    /\ Len(args) = 1
    /\ args[1].tag = "group"
    /\ \A k \in 1..Len(args[1].body) : args[1].body[k].tag = "kv"

RECURSIVE ValuesOf(_, _)
ValuesOf(keys, key) ==
    IF keys = <<>> THEN <<>>
    ELSE (IF Head(keys).key = key THEN <<Head(keys).val>> ELSE <<>>)
         \o ValuesOf(Tail(keys), key)

IsLocal(it, tag) == it.typ = ItemType_Local /\ it.tag = tag
IsCollection(it) == it.typ = ItemType_Main /\ it.tag = MainItemKind_Collection

\* the positions of the items of a descriptor that satisfy Is
Positions(items, Is(_)) == {i \in 1..Len(items) : Is(items[i])}

IsUsage(it) == IsLocal(it, LocalItemKind_Usage)
IsUsagePage(it) == IsGlobal(it, GlobalItemKind_UsagePage)
IsAfterUsage(it) ==
    \/ IsLocal(it, LocalItemKind_UsageMin) \/ IsLocal(it, LocalItemKind_UsageMax)
    \/ IsGlobal(it, GlobalItemKind_ReportID) \/ IsCollection(it)

RECURSIVE UsageValues(_)
UsageValues(items) ==
    IF items = <<>> THEN <<>>
    ELSE (IF IsUsage(Head(items)) THEN <<Magnitude(Head(items).data, FALSE)>> ELSE <<>>)
         \o UsageValues(Tail(items))

(* C24: every usage value of a group's parameter list, the key repeated or *)
(* not, is emitted as its own Local/Usage item, in declared order, after   *)
(* the group's Usage Page item and before its Usage Minimum, Usage         *)
(* Maximum, Report ID and Collection items.                                *)
C24_Claim ==
    (result = "Ok" /\ IsOneGroup)
    => LET items == Items(elems)
       IN  /\ UsageValues(items) = ValuesOf(args[1].keys, "usage")
           /\ \A u \in Positions(items, IsUsage) :
                 /\ \A p \in Positions(items, IsUsagePage) : p < u
                 /\ \A a \in Positions(items, IsAfterUsage) : u < a

(* C24 holds of the groups that give at most one usage.                    *)
C24_OneUsage ==
    (result = "Ok" /\ IsOneGroup /\ Len(ValuesOf(args[1].keys, "usage")) <= 1)
    => LET items == Items(elems)
       IN  /\ UsageValues(items) = ValuesOf(args[1].keys, "usage")
           /\ \A u \in Positions(items, IsUsage) :
                 /\ \A p \in Positions(items, IsUsagePage) : p < u
                 /\ \A a \in Positions(items, IsAfterUsage) : u < a

(***************************************************************************)
(* Collections: what the clauses declare and what the descriptor holds     *)
(***************************************************************************)
\* a run of equal neighbours of a sequence, reduced to one
RECURSIVE Collapse(_)
Collapse(q) ==
    IF Len(q) <= 1 THEN q
    ELSE IF q[1] = q[2] THEN Collapse(Tail(q))
    ELSE <<q[1]>> \o Collapse(Tail(q))

\* the clauses as declared: a group with a collection parameter opens
\* before its children and closes after them, an item clause is a field
RECURSIVE DeclaredShape(_)
DeclaredShape(cs) ==
    IF cs = <<>> THEN <<>>
    ELSE LET c == Head(cs)
             own == IF c.tag = "kv" THEN <<"field">>
                    ELSE IF ValuesOf(c.keys, "collection") # <<>>
                    THEN <<"open">> \o DeclaredShape(c.body) \o <<"close">>
                    ELSE DeclaredShape(c.body)
         IN  own \o DeclaredShape(Tail(cs))

\* the Main items of a descriptor; an End Collection counts as a close
\* only as the single byte 0xC0
RECURSIVE EmittedShape(_)
EmittedShape(items) ==
    IF items = <<>> THEN <<>>
    ELSE LET it == Head(items)
             own == IF it.typ # ItemType_Main THEN <<>>
                    ELSE IF it.tag = MainItemKind_Collection THEN <<"open">>
                    ELSE IF it.tag = MainItemKind_EndCollection
                    THEN (IF it.data = <<>> THEN <<"close">> ELSE <<"close with data">>)
                    ELSE <<"field">>
         IN  own \o EmittedShape(Tail(items))

(* C25: in the descriptor of a successful compile, each group with a       *)
(* collection parameter has one Collection item before its children and    *)
(* one End Collection byte 0xC0 after them, a group without the parameter  *)
(* has neither, and no item clause adds a Collection or End Collection     *)
(* item, whatever kind it names.                                           *)
C25_Claim ==
    result = "Ok" => Collapse(EmittedShape(Items(elems))) = Collapse(DeclaredShape(args))

(* C25 holds of the programs whose item clauses name input, output or      *)
(* feature.                                                                *)
C25_FieldKinds ==
    (result = "Ok"
       /\ \A k \in 1..Len(log) : log[k].spec.kind \in {MainItemKind_Input, MainItemKind_Output,
                                                         MainItemKind_Feature})
    => Collapse(EmittedShape(Items(elems))) = Collapse(DeclaredShape(args))

IsSetReport(call) ==
    call.op = "control_out" /\ call.req.relevant /\ call.req.request = HID_REQ_SET_REPORT

(* C26: a SET_REPORT request of at most CONTROL_BUF_LEN bytes is accepted  *)
(* and its report becomes the stored one, whatever was stored before; a    *)
(* longer one is rejected and leaves no stored report; a successful        *)
(* pull_raw_report returns the most recently accepted report; a stored     *)
(* report never has len above CONTROL_BUF_LEN.                             *)
C26_Claim ==
    /\ hid.set_report_buf.some => hid.set_report_buf.info.len <= CONTROL_BUF_LEN
    /\ (IsSetReport(obs.last) /\ obs.last.req.length <= CONTROL_BUF_LEN)
         => /\ obs.last.xfer = "accept"
            /\ hid.set_report_buf.some
            /\ hid.set_report_buf.seq = obs.last.seq
            /\ hid.set_report_buf.info = ReportInfoOf(obs.last.req)
            /\ SubSeq(hid.set_report_buf.buf, 1, obs.last.req.length) = obs.last.req.data
    /\ (IsSetReport(obs.last) /\ obs.last.req.length > CONTROL_BUF_LEN)
         => /\ obs.last.xfer = "reject"
            /\ ~hid.set_report_buf.some
    /\ (obs.last.op = "pull_raw_report" /\ obs.last.ret.ok)
         => /\ obs.last.seq = obs.accepted.seq
            /\ obs.last.ret.v = ReportInfoOf(obs.accepted.req)

\* a second SET_REPORT accepted while the first was still stored
C26_Witness ==
    /\ IsSetReport(obs.last)
    /\ obs.last.xfer = "accept"
    /\ obs.unpulled = 2
    /\ obs.last.req.length = CONTROL_BUF_LEN
    /\ hid.set_report_buf.seq = obs.last.seq
    /\ hid.set_report_buf.info.len = CONTROL_BUF_LEN

(***************************************************************************)
(* The globals in force at a Main item                                     *)
(***************************************************************************)
\* the value a reader gives the data of a global item: Logical Minimum and
\* Logical Maximum are signed, Report Size and Report Count are not
GlobalValue(tag, data) ==
    IF tag \in {GlobalItemKind_LogicalMin, GlobalItemKind_LogicalMax}
    THEN SignedValue(data) ELSE Magnitude(data, FALSE)

\* the globals in force after a sequence of items: for each of the four
\* tags, the value of the last item of the tag, if any
InForce(items) ==
    [t \in FourGlobals |->
        IF \E i \in 1..Len(items) : IsGlobal(items[i], t)
        THEN Some(GlobalValue(t, LastGlobal(items, t))) ELSE None]

SomeShape(shape) == [t \in FourGlobals |-> Some(shape[t])]

CachedGlobals ==
    (GlobalItemKind_LogicalMin :> compiler.logical_minimum)
    @@ (GlobalItemKind_LogicalMax :> compiler.logical_maximum)
    @@ (GlobalItemKind_ReportSize :> compiler.report_size)
    @@ (GlobalItemKind_ReportCount :> compiler.report_count)

\* the positions, among the items pushed up to the end of the k-th item
\* clause, of the Main items of that clause
ClauseMains(k) ==
    LET upto == Items(SubSeq(elems, 1, log[k].to))
        before == Len(Items(SubSeq(elems, 1, log[k].from)))
    IN  {p \in (before + 1)..Len(upto) : upto[p].typ = ItemType_Main}

\* the globals in force at the p-th item of the descriptor
InForceAt(p) == InForce(SubSeq(Items(elems), 1, p - 1))

(* C27: at every Input, Output or Feature Main item emit_field writes, the *)
(* padding item included, the last Logical Minimum, Logical Maximum,       *)
(* Report Size and Report Count items before it carry that item's values;  *)
(* and the cached globals of DescCompilation are the values of the last    *)
(* global items emitted, unset for a tag never emitted.                    *)
C27_Claim ==
    /\ result \in {"compiling", "Ok"} => CachedGlobals = InForce(Items(elems))
    /\ \A k \in 1..Len(log) :
          LET mains == ClauseMains(k)
              first == CHOOSE p \in mains : \A q \in mains : p <= q
              last == CHOOSE p \in mains : \A q \in mains : q <= p
          IN  log[k].item.kind \in {MainItemKind_Input, MainItemKind_Output, MainItemKind_Feature}
              => /\ mains # {}
                 /\ InForceAt(first) = SomeShape(ShapeOf(log[k].item))
                 /\ InForceAt(last) = SomeShape(LastShapeOf(log[k].item))
                 /\ Cardinality(mains) = IF log[k].item.padding_bits.some THEN 2 ELSE 1

\* a padded field followed by a plain one, in a finished descriptor
C27_Witness ==
    /\ result = "Ok"
    /\ Len(log) = 2
    /\ log[1].item.padding_bits.some
    /\ ~log[2].item.padding_bits.some
    /\ ShapeOf(log[1].item) # ShapeOf(log[2].item)
    /\ CachedGlobals = SomeShape(ShapeOf(log[2].item))

IsProtocolCall(call) ==
    \/ call.op \in {"get_protocol_mode", "set_protocol_mode"}
    \/ /\ call.op = "control_in"
       /\ call.req.relevant
       /\ call.req.request_type = "Class"
       /\ call.req.request = HID_REQ_GET_PROTOCOL
    \/ IsSetProtocol(call)

Refused(call) ==
    IF call.op \in {"get_protocol_mode", "set_protocol_mode"}
    THEN IsErr(call.ret, "Unsupported")
    ELSE call.xfer = "reject"

(* C28: the protocol mode is set exactly when settings.protocol is         *)
(* Keyboard or Mouse, in every state the constructor, set_protocol_mode,   *)
(* control_in and control_out can reach; on any other HIDClass             *)
(* get_protocol_mode and set_protocol_mode return Unsupported, the         *)
(* GET_PROTOCOL and SET_PROTOCOL requests are rejected, and none of the    *)
(* four changes the HIDClass.                                              *)
C28_Claim ==
    /\ [](hid.protocol.some <=> KeyboardOrMouse(hid))
    /\ []((~KeyboardOrMouse(hid) /\ IsProtocolCall(obs.last)) => Refused(obs.last))
    /\ [][(~KeyboardOrMouse(hid) /\ IsProtocolCall(obs'.last)) => hid' = hid]_vars

\* a Generic HIDClass after set_protocol_mode, GET_PROTOCOL and SET_PROTOCOL
C28_Witness ==
    /\ ~KeyboardOrMouse(hid)
    /\ ~hid.protocol.some
    /\ obs.n = 3
    /\ obs.set_by = NoCall
    /\ IsSetProtocol(obs.last)
    /\ obs.last.xfer = "reject"

(* C29: control_out changes the protocol mode or the stored report only   *)
(* for a request of type Class addressed to this interface: a Standard     *)
(* request whose code coincides with a HID one (SET_INTERFACE, 0x0B)       *)
(* changes nothing, and a request to another interface or recipient is     *)
(* neither accepted nor rejected and changes nothing.                      *)
C29_Claim ==
    [][obs'.last.op = "control_out"
       => /\ hid' # hid
               => obs'.last.req.relevant /\ obs'.last.req.request_type = "Class"
          /\ ~obs'.last.req.relevant => hid' = hid /\ obs'.last.xfer = "none"]_vars

(* C29, the part the handler keeps: only a request addressed to this       *)
(* interface changes the HIDClass or is answered.                          *)
C29_AddressedOnly ==
    [][obs'.last.op = "control_out"
       => /\ hid' # hid => obs'.last.req.relevant
          /\ ~obs'.last.req.relevant => hid' = hid /\ obs'.last.xfer = "none"]_vars

IsPull(call) == call.op = "pull_raw_report"

(* C30: pull_raw_report with a buffer shorter than the stored report       *)
(* returns BufferOverflow, copies nothing into the caller's buffer and     *)
(* leaves the report stored, so that a later call with a buffer that is    *)
(* large enough returns that same report.                                  *)
C30_Claim ==
    /\ [](obs.overflow.some => hid.set_report_buf = obs.overflow)
    /\ [][IsPull(obs'.last)
          => /\ (hid.set_report_buf.some
                   /\ obs'.last.data_len < hid.set_report_buf.info.len)
                  => /\ IsErr(obs'.last.ret, "BufferOverflow")
                     /\ obs'.last.data = <<>>
                     /\ hid' = hid
             /\ (obs.overflow.some /\ obs'.last.data_len >= obs.overflow.info.len)
                  => /\ obs'.last.ret.ok
                     /\ obs'.last.ret.v = obs.overflow.info
                     /\ obs'.last.data = SubSeq(obs.overflow.buf, 1, obs.overflow.info.len)
                     /\ obs'.last.seq = obs.overflow.seq]_vars

\* a 2-byte report: pulled with a 1-byte buffer, then with a 2-byte buffer
C30_Witness ==
    /\ obs.n = 3
    /\ IsPull(obs.last)
    /\ obs.last.data_len = 2
    /\ obs.last.ret.ok
    /\ obs.retried
    /\ obs.last.seq = 1
    /\ obs.last.data = DataStage(1, 2)
    /\ obs.delivered = <<1>>
    /\ ~hid.set_report_buf.some

====
